---- MODULE Spec2Model ----
(***************************************************************************)
(* Task manager backend: stage engine, task status propagation, overdue    *)
(* sweep, archival job and the e-mail queue with its delivery worker.      *)
(*                                                                         *)
(* Dates are day numbers, timestamps are the day they were taken on.       *)
(* A nullable column holds None when it is NULL.                           *)
(***************************************************************************)
EXTENDS Integers, Sequences, FiniteSets, TLC

\* ------------------------------------------------------------------ bounds
MaxDay == 1          \* the clock runs over FirstDay..FirstDay + MaxDay
MaxTasks == 1        \* task ids handed out by the tasks sequence
MaxStages == 3       \* stage ids handed out by the task_stages sequence
MaxOps == 5          \* requests served and job runs in one behaviour
MaxMails == 2        \* rows of email_logs in one behaviour
MaxProducers == 2    \* callers of enqueue_email that run at the same time
MaxProcs == 3        \* gunicorn worker processes on the host
MaxArchive == 2      \* tasks in the table when an archival run starts
MaxRequests == 2     \* HTTP requests that run at the same time

\* ------------------------------------------------------- program constants
\* NULL of a nullable column / an omitted request field
None == -1

\* NULL of a text column, and the empty string: both are falsy to the code
NoText == ""

\* archive_old_tasks keeps a task for 30 days after completion
ARCHIVE_DAYS == 30

\* the day the clock starts on: late enough for a date ARCHIVE_DAYS back
FirstDay == ARCHIVE_DAYS + 1

\* rows of the states table (seeded by ensure_states)
pending_id == 1
in_progress_id == 2
completed_id == 3
overdue_id == 4
StateIds == {pending_id, in_progress_id, completed_id, overdue_id}

state_name(id) ==
    CASE id = pending_id -> "pending"
      [] id = in_progress_id -> "in-progress"
      [] id = completed_id -> "completed"
      [] id = overdue_id -> "overdue"
      [] OTHER -> "?"

\* the users table: every user has a non-empty e-mail (EmailStr, nullable=False)
Users == {1}

\* task.assigned_user.email if task.assigned_user else None
recipient(task) ==
    IF task.assigned_user_id \in Users THEN "u@x" ELSE NoText

\* ------------------------------------------------------------------- state
VARIABLES
    ops,            \* operations performed so far
    today,          \* date.today()
    tasks,          \* table tasks: task_id -> row
    stages,         \* table task_stages: stage_id -> row
    task_seq,       \* last task_id handed out
    stage_seq,      \* last stage_id handed out
    archived_tasks, \* table archived_tasks: task_id -> row
    archived_stages,\* table archived_task_stages: stage_id -> row
    email_logs,     \* table email_logs: sequence of rows, id = index
    email_queue,    \* the in-process asyncio.Queue of EmailJob
    worker,         \* the email_worker coroutine: its position and job
    settings,       \* app.config.settings: the mail transport's configuration
    smtp_log,       \* the mail server's side: every aiosmtplib.send and its outcome
    events,         \* the queue's history: every put, get and task_done, in order
    producers,      \* the callers of enqueue_email: their position, mail and row id
    requests,       \* the HTTP requests under way: their position and session
    procs,          \* the gunicorn worker processes: position in lifespan, lock_fd, scheduler
    lock_holder,    \* the process holding the flock on the scheduler lock file
    sweep,          \* a run of check_overdue_and_notify in steps: position and session
    state_table,    \* table states: the state_ids that have a row
    last            \* the most recent operation: what was asked, what came back

vars == <<ops, today, tasks, stages, task_seq, stage_seq, archived_tasks,
          archived_stages, email_logs, email_queue, worker, settings, smtp_log,
          events, producers, requests, procs, lock_holder, sweep, state_table, last>>

dbVars == <<tasks, stages, task_seq, stage_seq>>
archiveVars == <<archived_tasks, archived_stages>>
mailVars == <<email_logs, email_queue, worker, settings, smtp_log>>
hostVars == <<procs, lock_holder>>
jobVars == <<sweep, state_table>>
queueVars == <<events, producers, requests>>

\* a lookup that takes the seeded rows for granted
get_all_states_seeded(name) ==
    IF \E i \in StateIds : state_name(i) = name
    THEN CHOOSE i \in StateIds : state_name(i) = name
    ELSE None

\* get_all_states: name -> id over the rows of the states table
get_all_states(name) ==
    IF \E i \in state_table : state_name(i) = name
    THEN CHOOSE i \in state_table : state_name(i) = name
    ELSE None

\* one more operation fits the behaviour
Budget == ops < MaxOps /\ ops' = ops + 1

\* ----------------------------------------------------------------- helpers
Max(S) == CHOOSE x \in S : \A y \in S : y <= x

\* the stages relationship of a task: ids of the rows whose task_id is t
StagesOf(stgs, t) == {s \in DOMAIN stgs : stgs[s].task_id = t}

\* onupdate=func.now(): a row that is written with a change gets updated_at
Touch(old, new, day) ==
    IF new = old THEN old ELSE [new EXCEPT !.updated_at = day]

\* the UPDATE a session flushes for a row it loaded as old and changed to new:
\* the changed columns are written over the row as it is now, and onupdate
\* stamps updated_at
flush_row(cur, old, new, day) ==
    IF new = old THEN cur
    ELSE [c \in DOMAIN cur |->
             IF c = "updated_at" THEN day
             ELSE IF new[c] # old[c] THEN new[c] ELSE cur[c]]

NoOp == [op |-> "init", code |-> 0, id |-> None, req |-> None, pre |-> None]

\* ------------------------------------------------ task status propagation
\* a completed_date taken from the stage that finished first
task_completed_date_earliest(dates, day) ==
    IF dates = {} THEN day ELSE CHOOSE x \in dates : \A y \in dates : x <= y

\* max((s.completed_date for s in task.stages if s.completed_date), default=today)
task_completed_date(dates, day) ==
    IF dates = {} THEN day ELSE Max(dates)

\* all() alone: true of a task without stages
all_stages_completed_vacuous(own) ==
    \A s \in own : s.status_state_id = get_all_states("completed")

\* all_completed and task.stages: every stage completed, and at least one stage
all_stages_completed(own) ==
    /\ \A s \in own : s.status_state_id = get_all_states("completed")
    /\ own # {}

\* the two elif branches in the other order: in-progress before overdue
open_task_status_in_progress_first(task, own, day) ==
    IF \E s \in own : s.status_state_id = get_all_states("in-progress")
    THEN get_all_states("in-progress")
    ELSE IF task.due_date < day /\ task.status_state_id # get_all_states("completed")
    THEN get_all_states("overdue")
    ELSE task.status_state_id

\* the status of a task whose stages are not all completed: overdue when past
\* due and not completed, else in-progress when a stage is, else as it was
open_task_status(task, own, day) ==
    IF task.due_date < day /\ task.status_state_id # get_all_states("completed")
    THEN get_all_states("overdue")
    ELSE IF \E s \in own : s.status_state_id = get_all_states("in-progress")
    THEN get_all_states("in-progress")
    ELSE task.status_state_id

\* the rules of update_task_status_from_stages on one loaded task: the row after
recompute_task(task, own, day) ==
    LET dates == {s.completed_date : s \in own} \ {None}
    IN IF all_stages_completed(own)
       THEN [task EXCEPT !.status_state_id = get_all_states("completed"),
                         !.completed_date = task_completed_date(dates, day)]
       ELSE [task EXCEPT !.status_state_id = open_task_status(task, own, day)]

\* update_task_status_from_stages(db, task_id): the tasks table afterwards
update_task_status_from_stages(tks, stgs, task_id, day) ==
    IF task_id \notin DOMAIN tks THEN tks
    ELSE LET own == {stgs[s] : s \in StagesOf(stgs, task_id)}
         IN [tks EXCEPT ![task_id] = Touch(@, recompute_task(@, own, day), day)]

\* ------------------------------------------------------------ stage engine
\* what a PUT /tasks/stages/{id} body carries (TaskStageUpdate)
StageUpdate(status, hours, start, completed) ==
    [status_state_id |-> status, actual_time_hours |-> hours,
     start_date |-> start, completed_date |-> completed]

\* a start_date that is reset on every transition to in-progress
start_date_on_transition_reset(stage, new_status, day) ==
    IF new_status = "in-progress" THEN day ELSE stage.start_date

\* the start_date a transition derives: today on the first move to in-progress
start_date_on_transition(stage, new_status, day) ==
    IF new_status = "in-progress" /\ stage.start_date = None
    THEN day ELSE stage.start_date

\* a completion check that looks at the request only
completion_rejected_request_only(stage, update_data) ==
    update_data.actual_time_hours = None

\* a completion is refused when neither the request nor the row has actual hours
completion_rejected(stage, update_data) ==
    update_data.actual_time_hours = None /\ stage.actual_time_hours = None

\* a lookup that finds a State row for every id
state_by_id_any(id) ==
    TRUE

\* update_stage's select(State) by state_id finds a row
state_by_id(id) ==
    id \in state_table

\* services.update_stage up to the propagation call: the status code and the
\* stage row as the session holds it
update_stage(stgs, stage_id, update_data, day) ==
    IF stage_id \notin DOMAIN stgs
    THEN [code |-> 404, stage |-> None]
    ELSE IF ~state_by_id(update_data.status_state_id)
    THEN [code |-> 404, stage |-> stgs[stage_id]]
    ELSE
      LET new_status == state_name(update_data.status_state_id)
          s0 == stgs[stage_id]
          s1 == [s0 EXCEPT !.status_state_id = update_data.status_state_id]
          s2 == [s1 EXCEPT !.start_date = start_date_on_transition(s1, new_status, day)]
          s3 == IF new_status = "completed"
                THEN [s2 EXCEPT !.completed_date =
                        IF update_data.completed_date # None
                        THEN update_data.completed_date ELSE day]
                ELSE s2
          s4 == IF update_data.actual_time_hours # None
                THEN [s3 EXCEPT !.actual_time_hours = update_data.actual_time_hours]
                ELSE s3
          s5 == IF update_data.start_date # None
                THEN [s4 EXCEPT !.start_date = update_data.start_date] ELSE s4
          s6 == IF update_data.completed_date # None
                THEN [s5 EXCEPT !.completed_date = update_data.completed_date] ELSE s5
      IN IF new_status = "completed" /\ completion_rejected(s2, update_data)
         THEN [code |-> 400, stage |-> s0, dirty |-> s2]
         ELSE [code |-> 200, stage |-> s6]

\* a session whose changes reach the table when it is closed
get_db_close_flush(table, session) ==
    session

\* get_db after an exception of the handler: the session is closed without a
\* commit, and the table stays as it was
get_db_close(table, session) ==
    table

\* PUT /tasks/stages/{stage_id}: service call, propagation, commit; when the
\* service raises, the session holds what update_stage had assigned by then
UpdateStage(stage_id, update_data) ==
    LET r == update_stage(stages, stage_id, update_data, today)
        stgs1 == [stages EXCEPT ![stage_id] = Touch(stages[stage_id], r.stage, today)]
    IN /\ Budget
       /\ IF r.code = 200
          THEN /\ stages' = stgs1
               /\ tasks' = update_task_status_from_stages(tasks, stgs1, r.stage.task_id, today)
          ELSE /\ stages' = get_db_close(stages,
                                IF r.code = 400
                                THEN [stages EXCEPT ![stage_id] = r.dirty]
                                ELSE stages)
               /\ tasks' = tasks
       /\ last' = [op |-> "update_stage", code |-> r.code, id |-> stage_id,
                   req |-> update_data,
                   pre |-> IF stage_id \in DOMAIN stages THEN stages[stage_id] ELSE None]
       /\ UNCHANGED <<today, task_seq, stage_seq, archiveVars, mailVars, hostVars, jobVars, queueVars>>

\* ------------------------------------------------------------------ clock
\* midnight: date.today() moves on
AdvanceDay ==
    /\ Budget
    /\ today < FirstDay + MaxDay
    /\ today' = today + 1
    /\ last' = [NoOp EXCEPT !.op = "tick"]
    /\ UNCHANGED <<dbVars, archiveVars, mailVars, hostVars, jobVars, queueVars>>

\* ---------------------------------------------------------- task creation
\* the task_templates table with the order_numbers of each template's stages
Templates == (1 :> <<1, 2>>)

Range(f) == {f[i] : i \in DOMAIN f}

\* sorted(template.stages, key=order_number): order_numbers in ascending order
RECURSIVE SortedOrders(_)
SortedOrders(S) ==
    IF S = {} THEN <<>>
    ELSE LET m == CHOOSE x \in S : \A y \in S : x <= y
         IN <<m>> \o SortedOrders(S \ {m})

\* a TaskStage row as create_task and add_stage_to_task build it
NewStage(task_id, order_number, hours, day) ==
    [task_id |-> task_id, stage_name |-> "s", estimated_time_hours |-> hours,
     actual_time_hours |-> None, status_state_id |-> get_all_states("pending"),
     order_number |-> order_number, start_date |-> None, completed_date |-> None,
     created_at |-> day, updated_at |-> None]

\* a tasks table without the unique index on idempotency_key
TaskUniqueViolation_name_only(tks, task_data) ==
    \E t \in DOMAIN tks :
        /\ task_data.assigned_user_id # None
        /\ tks[t].name = task_data.name
        /\ tks[t].assigned_user_id = task_data.assigned_user_id

\* the INSERT of a task breaks a unique constraint of the tasks table
TaskUniqueViolation(tks, task_data) ==
    \E t \in DOMAIN tks :
        \/ /\ task_data.idempotency_key # None
           /\ tks[t].idempotency_key = task_data.idempotency_key
        \/ /\ task_data.assigned_user_id # None
           /\ tks[t].name = task_data.name
           /\ tks[t].assigned_user_id = task_data.assigned_user_id

\* services.create_task after its idempotency check: the INSERT of the task
\* and of its stages, as the router's commit leaves tables and sequences
insert_task(tks, stgs, tseq, sseq, task_data, current_user_id, day) ==
    LET new_id == tseq + 1
        new_task ==
            [name |-> task_data.name, description |-> "d",
             status_state_id |-> get_all_states("pending"),
             due_date |-> task_data.due_date, completed_date |-> None,
             priority |-> task_data.priority,
             assigned_user_id |-> task_data.assigned_user_id,
             created_by_id |-> current_user_id,
             idempotency_key |-> task_data.idempotency_key,
             created_at |-> day, updated_at |-> None,
             is_deleted |-> FALSE, deleted_at |-> None]
        from_template ==
            IF task_data.template_id \in DOMAIN Templates
            THEN LET ts == SortedOrders(Range(Templates[task_data.template_id]))
                 IN [i \in DOMAIN ts |-> NewStage(new_id, ts[i], 0, day)]
            ELSE <<>>
        explicit == [i \in DOMAIN task_data.stages |->
                        NewStage(new_id, task_data.stages[i], 5, day)]
        added == from_template \o explicit
    IN IF TaskUniqueViolation(tks, task_data)
       THEN [code |-> 500, task_id |-> None,
             tasks |-> tks, stages |-> stgs, tseq |-> new_id, sseq |-> sseq]
       ELSE IF task_data.template_id # None /\ task_data.template_id \notin DOMAIN Templates
       THEN [code |-> 404, task_id |-> None,
             tasks |-> tks, stages |-> stgs, tseq |-> new_id, sseq |-> sseq]
       ELSE [code |-> 201, task_id |-> new_id,
             tasks |-> (new_id :> new_task) @@ tks,
             stages |-> [i \in (sseq + 1)..(sseq + Len(added)) |-> added[i - sseq]] @@ stgs,
             tseq |-> new_id, sseq |-> sseq + Len(added)]

\* the idempotency check of services.create_task: the live tasks with the key
existing_task(tks, task_data) ==
    {t \in DOMAIN tks :
        /\ task_data.idempotency_key # None
        /\ tks[t].idempotency_key = task_data.idempotency_key
        /\ ~tks[t].is_deleted}

\* services.create_task: code, the task id it returns, and both tables and
\* sequences as the session leaves them for the router's commit
create_task(tks, stgs, tseq, sseq, task_data, current_user_id, day) ==
    IF existing_task(tks, task_data) # {}
    THEN [code |-> 201, task_id |-> CHOOSE t \in existing_task(tks, task_data) : TRUE,
          tasks |-> tks, stages |-> stgs, tseq |-> tseq, sseq |-> sseq]
    ELSE insert_task(tks, stgs, tseq, sseq, task_data, current_user_id, day)

\* POST /tasks/: service call, commit
CreateTask(task_data) ==
    LET r == create_task(tasks, stages, task_seq, stage_seq, task_data, 1, today)
    IN /\ Budget
       /\ r.tseq <= MaxTasks
       /\ r.sseq <= MaxStages
       /\ tasks' = r.tasks
       /\ stages' = r.stages
       /\ task_seq' = r.tseq
       /\ stage_seq' = r.sseq
       /\ last' = [op |-> "create_task", code |-> r.code, id |-> r.task_id,
                   req |-> task_data, pre |-> None]
       /\ UNCHANGED <<today, archiveVars, mailVars, hostVars, jobVars, queueVars>>

\* a lookup that also returns soft-deleted tasks
get_task_by_id_with_deleted(tks, task_id) ==
    task_id \in DOMAIN tks

\* services.get_task_by_id: the task is there and not soft-deleted
get_task_by_id(tks, task_id) ==
    task_id \in DOMAIN tks /\ ~tks[task_id].is_deleted

\* POST /tasks/{task_id}/stages
AddStage(task_id) ==
    /\ Budget
    /\ stage_seq < MaxStages
    /\ IF ~get_task_by_id(tasks, task_id)
       THEN /\ UNCHANGED <<stages, stage_seq>>
            /\ last' = [op |-> "add_stage", code |-> 404, id |-> task_id,
                        req |-> None, pre |-> None]
       ELSE LET orders == {stages[s].order_number : s \in StagesOf(stages, task_id)}
                max_order == IF orders = {} THEN 0 ELSE Max(orders)
            IN /\ stages' = ((stage_seq + 1) :>
                               NewStage(task_id, max_order + 1, 5, today)) @@ stages
               /\ stage_seq' = stage_seq + 1
               /\ last' = [op |-> "add_stage", code |-> 201, id |-> task_id,
                           req |-> None, pre |-> None]
    /\ UNCHANGED <<today, tasks, task_seq, archiveVars, mailVars, hostVars, jobVars, queueVars>>

\* enumerate(remaining_stages) without start=1: numbered from 0
Renumberings_from_zero(stgs, remaining) ==
    {f \in [remaining -> 0..(Cardinality(remaining) - 1)] :
        /\ \A a, b \in remaining : a # b => f[a] # f[b]
        /\ \A a, b \in remaining :
              stgs[a].order_number < stgs[b].order_number => f[a] < f[b]}

\* the renumberings enumerate(remaining_stages, start=1) can produce: the rows
\* come back ordered by order_number, rows with equal order_number in any order
Renumberings(stgs, remaining) ==
    {f \in [remaining -> 1..Cardinality(remaining)] :
        /\ \A a, b \in remaining : a # b => f[a] # f[b]
        /\ \A a, b \in remaining :
              stgs[a].order_number < stgs[b].order_number => f[a] < f[b]}

\* DELETE /tasks/stages/{stage_id}: delete, commit, renumber, commit
DeleteStage(stage_id) ==
    /\ Budget
    /\ IF stage_id \notin DOMAIN stages
       THEN /\ UNCHANGED stages
            /\ last' = [op |-> "delete_stage", code |-> 404, id |-> stage_id,
                        req |-> None, pre |-> stages]
       ELSE LET task_id == stages[stage_id].task_id
                remaining == StagesOf(stages, task_id) \ {stage_id}
                kept == [s \in DOMAIN stages \ {stage_id} |-> stages[s]]
            IN \E f \in Renumberings(stages, remaining) :
                 /\ stages' = [s \in DOMAIN kept |->
                                 IF s \in remaining
                                 THEN Touch(kept[s], [kept[s] EXCEPT !.order_number = f[s]], today)
                                 ELSE kept[s]]
                 /\ last' = [op |-> "delete_stage",
                             code |-> IF get_task_by_id(tasks, task_id) THEN 200 ELSE 404,
                             id |-> stage_id, req |-> None, pre |-> stages]
    /\ UNCHANGED <<today, tasks, task_seq, stage_seq, archiveVars, mailVars, hostVars, jobVars, queueVars>>

\* what a request on a task finds: the row is there, it is soft-deleted
Found(task_id) ==
    [exists |-> task_id \in DOMAIN tasks,
     is_deleted |-> task_id \in DOMAIN tasks /\ tasks[task_id].is_deleted,
     status_state_id |-> IF task_id \in DOMAIN tasks
                         THEN tasks[task_id].status_state_id ELSE None]

\* DELETE /tasks/{task_id}: soft delete
DeleteTask(task_id) ==
    /\ Budget
    /\ IF ~get_task_by_id(tasks, task_id)
       THEN /\ UNCHANGED tasks
            /\ last' = [op |-> "delete_task", code |-> 404, id |-> task_id,
                        req |-> None, pre |-> Found(task_id)]
       ELSE /\ tasks' = [tasks EXCEPT ![task_id] =
                            Touch(@, [@ EXCEPT !.is_deleted = TRUE, !.deleted_at = today], today)]
            /\ last' = [op |-> "delete_task", code |-> 204, id |-> task_id,
                        req |-> None, pre |-> Found(task_id)]
    /\ UNCHANGED <<today, stages, task_seq, stage_seq, archiveVars, mailVars, hostVars, jobVars, queueVars>>

\* a PATCH /tasks/{task_id} body (TaskUpdate); None is a field left out
TaskUpdate(name, due, user, status) ==
    [name |-> name, description |-> None, due_date |-> due, priority |-> None,
     assigned_user_id |-> user, status_state_id |-> status]

\* a direct move to completed that no open stage stops
task_completion_rejected_never(stgs, task_id, status) ==
    FALSE

\* update_task: the body asks for completed and a stage of the task is not
\* completed
task_completion_rejected(stgs, task_id, status) ==
    /\ status = get_all_states("completed")
    /\ \E s \in StagesOf(stgs, task_id) :
          stgs[s].status_state_id # get_all_states("completed")

\* the UPDATE of a task breaks a constraint of the tasks table: the foreign
\* keys to states and users, the unique (name, assigned_user_id)
update_task_violation(tks, task_id, new) ==
    \/ new.status_state_id \notin state_table
    \/ new.assigned_user_id # None /\ new.assigned_user_id \notin Users
    \/ \E t \in DOMAIN tks \ {task_id} :
          /\ new.assigned_user_id # None
          /\ tks[t].name = new.name
          /\ tks[t].assigned_user_id = new.assigned_user_id

\* routers.update_task: code and the tasks table after the commit
update_task(tks, stgs, task_id, update_data, day) ==
    IF ~get_task_by_id(tks, task_id)
    THEN [code |-> 404, tasks |-> tks]
    ELSE IF /\ update_data.status_state_id # None
            /\ task_completion_rejected(stgs, task_id, update_data.status_state_id)
    THEN [code |-> 400, tasks |-> tks]
    ELSE LET task == tks[task_id]
             new == [task EXCEPT
                        !.name = IF update_data.name # None
                                 THEN update_data.name ELSE @,
                        !.due_date = IF update_data.due_date # None
                                     THEN update_data.due_date ELSE @,
                        !.assigned_user_id = IF update_data.assigned_user_id # None
                                             THEN update_data.assigned_user_id ELSE @,
                        !.status_state_id = IF update_data.status_state_id # None
                                            THEN update_data.status_state_id ELSE @]
         IN IF update_task_violation(tks, task_id, new)
            THEN [code |-> 500, tasks |-> tks]
            ELSE [code |-> 200,
                  tasks |-> [tks EXCEPT ![task_id] = Touch(task, new, day)]]

\* PATCH /tasks/{task_id}
UpdateTask(task_id, update_data) ==
    LET r == update_task(tasks, stages, task_id, update_data, today)
    IN /\ Budget
       /\ tasks' = r.tasks
       /\ last' = [op |-> "update_task", code |-> r.code, id |-> task_id,
                   req |-> update_data, pre |-> Found(task_id)]
       /\ UNCHANGED <<today, stages, task_seq, stage_seq, archiveVars, mailVars,
                      hostVars, jobVars, queueVars>>

\* GET /tasks/{task_id}
GetTask(task_id) ==
    /\ Budget
    /\ last' = [op |-> "get_task",
                code |-> IF get_task_by_id(tasks, task_id) THEN 200 ELSE 404,
                id |-> task_id, req |-> None, pre |-> Found(task_id)]
    /\ UNCHANGED <<today, dbVars, archiveVars, mailVars, hostVars, jobVars, queueVars>>

\* ------------------------------------------------- the stage engine at work
Empty == <<>>

\* nobody is enqueueing, one process serves and runs the scheduler, no sweep
\* is under way, the states table is seeded
InitRest ==
    /\ events = <<>>
    /\ producers = Empty
    /\ requests = Empty
    /\ procs = Empty
    /\ lock_holder = None
    /\ sweep = [pc |-> "idle"]
    /\ state_table = StateIds

\* the process has started on an empty database
Init ==
    /\ InitRest
    /\ ops = 0
    /\ today = FirstDay
    /\ tasks = Empty
    /\ stages = Empty
    /\ task_seq = 0
    /\ stage_seq = 0
    /\ archived_tasks = Empty
    /\ archived_stages = Empty
    /\ email_logs = <<>>
    /\ email_queue = <<>>
    /\ worker = [pc |-> "get", job |-> None, error |-> NoText]
    /\ settings = [EMAIL_HOST |-> NoText]
    /\ smtp_log = <<>>
    /\ last = NoOp

\* a POST /tasks/ body (TaskCreate)
TaskCreate(due, user, key, template, orders) ==
    [name |-> "t", due_date |-> due, priority |-> "high",
     assigned_user_id |-> user, idempotency_key |-> key,
     template_id |-> template, stages |-> orders]

\* the request bodies the stage engine is driven with
NewTasks ==
    {TaskCreate(due, None, None, None, orders) :
        due \in {FirstDay, FirstDay + 3}, orders \in {<<1>>, <<1, 2>>}}

StageUpdates ==
    { StageUpdate(pending_id, None, None, None),
      StageUpdate(in_progress_id, None, None, None),
      StageUpdate(in_progress_id, None, FirstDay, None),
      StageUpdate(completed_id, None, None, None),
      StageUpdate(completed_id, 6, None, None),
      StageUpdate(completed_id, 6, None, FirstDay),
      StageUpdate(999, None, None, None) }

Next ==
    \/ \E task_data \in NewTasks : CreateTask(task_data)
    \/ \E s \in 1..MaxStages, update_data \in StageUpdates : UpdateStage(s, update_data)
    \/ AdvanceDay

Spec == Init /\ [][Next]_vars

\* ------------------------------------------------------ stage engine claims
\* C1: when a stage transition leaves every stage of the task completed, the
\* same operation has set the task to completed with completed_date equal to
\* the maximum completed_date among the task's stages.
C1_AllCompletedPropagates ==
    (last.op = "update_stage" /\ last.code = 200) =>
        LET t == stages[last.id].task_id
            own == StagesOf(stages, t)
        IN (\A s \in own : stages[s].status_state_id = completed_id) =>
              /\ tasks[t].status_state_id = completed_id
              /\ tasks[t].completed_date = Max({stages[s].completed_date : s \in own})

\* a transition has just completed the last open stage of a two-stage task whose
\* stages finished on different days
C1_Witness ==
    /\ last.op = "update_stage" /\ last.code = 200
    /\ last.pre.status_state_id # completed_id
    /\ LET t == stages[last.id].task_id
           own == StagesOf(stages, t)
       IN /\ Cardinality(own) = 2
          /\ \A s \in own : stages[s].status_state_id = completed_id
          /\ \E a, b \in own : stages[a].completed_date < stages[b].completed_date
          /\ tasks[t].status_state_id = completed_id

\* C2: a transition to completed fails with 400 exactly when neither the
\* request nor the stored stage carries actual hours; otherwise it succeeds
\* and the stage is completed.
C2_CompletionNeedsActualHours ==
    (/\ last.op = "update_stage"
     /\ last.id \in DOMAIN stages
     /\ last.req.status_state_id = completed_id) =>
        IF last.req.actual_time_hours = None /\ last.pre.actual_time_hours = None
        THEN last.code = 400
        ELSE last.code = 200 /\ stages[last.id].status_state_id = completed_id

\* a completion without hours was accepted on the strength of the stored hours
C2_Witness ==
    /\ last.op = "update_stage"
    /\ last.id \in DOMAIN stages
    /\ last.req.status_state_id = completed_id
    /\ last.req.actual_time_hours = None
    /\ last.pre.actual_time_hours # None
    /\ last.pre.status_state_id # completed_id
    /\ last.code = 200

\* C3: a transition to in-progress that supplies no start_date sets start_date
\* to today only when the stage has none; a start_date already there is kept.
C3_StartDateSetOnce ==
    (/\ last.op = "update_stage" /\ last.code = 200
     /\ last.req.status_state_id = in_progress_id
     /\ last.req.start_date = None) =>
        stages[last.id].start_date =
            IF last.pre.start_date = None THEN today ELSE last.pre.start_date

\* the second of two transitions to in-progress, made on a later day than the
\* first, has left the start_date of the first
C3_Witness ==
    /\ last.op = "update_stage" /\ last.code = 200
    /\ last.req.status_state_id = in_progress_id
    /\ last.req.start_date = None
    /\ last.pre.status_state_id = in_progress_id
    /\ last.pre.start_date # None
    /\ last.pre.start_date < today
    /\ stages[last.id].start_date = last.pre.start_date

\* --------------------------------------- propagation as a function of its input
\* recompute_task_status(task_id): the propagation run on its own
Recompute(task_id) ==
    /\ task_id \in DOMAIN tasks
    /\ tasks' = update_task_status_from_stages(tasks, stages, task_id, today)
    /\ last' = [op |-> "recompute", code |-> 200, id |-> task_id,
                req |-> None, pre |-> tasks[task_id]]
    /\ UNCHANGED <<ops, today, stages, task_seq, stage_seq, archiveVars, mailVars, hostVars, jobVars, queueVars>>

\* a stage row in one of the conditions the stage engine and the sweep leave
StageShape(status, start, completed, hours) ==
    [NewStage(1, 1, 5, FirstDay) EXCEPT
        !.status_state_id = status, !.start_date = start,
        !.completed_date = completed, !.actual_time_hours = hours]

StageShapes ==
    { StageShape(pending_id, None, None, None),
      StageShape(in_progress_id, FirstDay, None, None),
      StageShape(overdue_id, FirstDay, None, None),
      StageShape(completed_id, FirstDay, FirstDay, 6),
      StageShape(completed_id, None, FirstDay + 1, 6) }

\* the stage lists of the task: none, one or two stages
StageTables ==
    {Empty} \cup {(1 :> a) : a \in StageShapes}
            \cup {(1 :> a) @@ (2 :> [b EXCEPT !.order_number = 2]) :
                     a \in StageShapes, b \in StageShapes}

\* one task in any status, due today or earlier or later, with any stage list
InitRecompute ==
    /\ InitRest
    /\ ops = 0
    /\ today \in {FirstDay + 1, FirstDay + 2}
    /\ \E status \in StateIds, due \in {FirstDay, FirstDay + 3}, done \in {None, FirstDay} :
          tasks = (1 :> [create_task(Empty, Empty, 0, 0,
                            TaskCreate(due, None, None, None, <<>>), 1, FirstDay).tasks[1]
                         EXCEPT !.status_state_id = status, !.completed_date = done])
    /\ stages \in StageTables
    /\ task_seq = 1
    /\ stage_seq = Cardinality(DOMAIN stages)
    /\ archived_tasks = Empty
    /\ archived_stages = Empty
    /\ email_logs = <<>>
    /\ email_queue = <<>>
    /\ worker = [pc |-> "get", job |-> None, error |-> NoText]
    /\ settings = [EMAIL_HOST |-> NoText]
    /\ smtp_log = <<>>
    /\ last = NoOp

NextRecompute == \E t \in 1..MaxTasks : Recompute(t)

SpecRecompute == InitRecompute /\ [][NextRecompute]_vars

\* C4: on a task without stages the propagation never sets the status to
\* completed (nor a completed_date), whatever the status and the due date.
C4_NoStagesNeverCompleted ==
    (last.op = "recompute" /\ StagesOf(stages, last.id) = {}) =>
        /\ tasks[last.id].status_state_id = completed_id
              => last.pre.status_state_id = completed_id
        /\ tasks[last.id].completed_date = last.pre.completed_date

\* the propagation has run on a stage-less task that was not completed
C4_Witness ==
    /\ last.op = "recompute"
    /\ StagesOf(stages, last.id) = {}
    /\ last.pre.status_state_id # completed_id
    /\ tasks[last.id].status_state_id # completed_id

\* C5: for a task with a stage that is not completed the precedence is
\* overdue > in-progress > unchanged: past due and not completed gives overdue
\* even with a stage in progress, else a stage in progress gives in-progress,
\* else the status stays.
C5_Precedence ==
    (/\ last.op = "recompute"
     /\ \E s \in StagesOf(stages, last.id) : stages[s].status_state_id # completed_id) =>
        tasks[last.id].status_state_id =
            IF last.pre.due_date < today /\ last.pre.status_state_id # completed_id
            THEN overdue_id
            ELSE IF \E s \in StagesOf(stages, last.id) :
                        stages[s].status_state_id = in_progress_id
            THEN in_progress_id
            ELSE last.pre.status_state_id

\* a past-due task with a stage in progress has been set to overdue
C5_Witness ==
    /\ last.op = "recompute"
    /\ \E s \in StagesOf(stages, last.id) : stages[s].status_state_id = in_progress_id
    /\ last.pre.due_date < today
    /\ last.pre.status_state_id = in_progress_id
    /\ tasks[last.id].status_state_id = overdue_id

\* ------------------------------------------------ stage lists and their order
\* the request bodies the stage lists are built with: contiguous, tied and
\* gapped order_numbers, with and without a template
StagedTasks ==
    {TaskCreate(FirstDay + 3, None, None, template, orders) :
        template \in {None, 1},
        orders \in {<<>>, <<1, 2, 3>>, <<2, 2>>, <<3, 1>>, <<2>>}}

NextStages ==
    \/ \E task_data \in StagedTasks : CreateTask(task_data)
    \/ \E t \in 1..MaxTasks : AddStage(t)
    \/ \E s \in 1..MaxStages : DeleteStage(s)
    \/ \E t \in 1..MaxTasks : DeleteTask(t)

SpecStages == Init /\ [][NextStages]_vars

\* C9: after delete_stage the remaining stages of the task carry the
\* order_numbers 1..N, without gap or duplicate, in the relative order they had.
C9_DeleteStageRenumbers ==
    (last.op = "delete_stage" /\ last.id \in DOMAIN last.pre) =>
        LET t == last.pre[last.id].task_id
            remaining == StagesOf(last.pre, t) \ {last.id}
        IN /\ StagesOf(stages, t) = remaining
           /\ {stages[s].order_number : s \in remaining} = 1..Cardinality(remaining)
           /\ \A a, b \in remaining :
                 last.pre[a].order_number < last.pre[b].order_number
                    => stages[a].order_number < stages[b].order_number

\* the second of three stages numbered 1, 2, 3 was deleted and the other two
\* are numbered 1, 2
C9_Witness ==
    /\ last.op = "delete_stage" /\ last.id \in DOMAIN last.pre
    /\ last.pre[last.id].order_number = 2
    /\ LET t == last.pre[last.id].task_id
       IN /\ {last.pre[s].order_number : s \in StagesOf(last.pre, t)} = {1, 2, 3}
          /\ Cardinality(StagesOf(last.pre, t)) = 3
          /\ {stages[s].order_number : s \in StagesOf(stages, t)} = {1, 2}
          /\ \E s \in StagesOf(stages, t) :
                last.pre[s].order_number = 3 /\ stages[s].order_number = 2

\* ------------------------------------------------------------ notifications
\* the sequences that enumerate the set S, each element once
Perms(S) ==
    {f \in [1..Cardinality(S) -> S] : \A i, j \in DOMAIN f : i # j => f[i] # f[j]}

\* an e-mail as its sender composes it; the body is kept as the ids of the
\* task and stage its text is rendered from
Mail(prefix, about, task_id, stage_id, to_email) ==
    [subject |-> <<prefix, about>>,
     body |-> [task_id |-> task_id, stage_id |-> stage_id],
     to_email |-> to_email]

\* the history entries of the jobs a caller has put, in the order of the puts
Puts(jobs) == [i \in DOMAIN jobs |-> [ev |-> "put", log_id |-> jobs[i].log_id]]

\* enqueue_email for the mails of one asyncio.gather: every mail gets a pending
\* email_logs row and then a job on the queue; the calls run concurrently, so
\* the rows are inserted in one order (rows) and the jobs put in another (puts)
enqueue_email(logs, queue, mails, rows, puts, day) ==
    LET log_id(k) == Len(logs) + CHOOSE i \in DOMAIN rows : rows[i] = k
    IN [logs |-> logs \o [i \in DOMAIN rows |->
                    [to_email |-> mails[rows[i]].to_email,
                     subject |-> mails[rows[i]].subject,
                     body |-> mails[rows[i]].body,
                     status |-> "pending", created_at |-> day,
                     sent_at |-> None, error_message |-> NoText]],
        queue |-> queue \o [i \in DOMAIN puts |->
                    [log_id |-> log_id(puts[i]),
                     subject |-> mails[puts[i]].subject,
                     body |-> mails[puts[i]].body,
                     to_email |-> mails[puts[i]].to_email]]]

\* ------------------------------------------------------------ overdue sweep
\* overdue tasks that are still selected when they are overdue already: none
overdue_tasks_not_yet_flagged(tks, day) ==
    {t \in DOMAIN tks :
        /\ tks[t].status_state_id \notin {get_all_states("completed"), get_all_states("overdue")}
        /\ tks[t].due_date < day}

\* a first query that does not look at the status
overdue_tasks_any_status(tks, day) ==
    {t \in DOMAIN tks : tks[t].due_date < day}

\* the first query: tasks not completed whose due_date is before today
overdue_tasks(tks, day) ==
    {t \in DOMAIN tks :
        /\ tks[t].status_state_id # get_all_states("completed")
        /\ tks[t].due_date < day}

\* a stage query that does not ask for a start_date
overdue_stages_started_or_not(tks, stgs, day) ==
    {s \in DOMAIN stgs :
        /\ stgs[s].status_state_id # get_all_states("completed")
        /\ stgs[s].completed_date = None
        /\ tks[stgs[s].task_id].due_date < day}

\* a stage query that also asks for the owning task to be overdue in the database
overdue_stages_of_flagged_tasks(tks, stgs, day) ==
    {s \in DOMAIN stgs :
        /\ stgs[s].status_state_id # get_all_states("completed")
        /\ stgs[s].completed_date = None
        /\ stgs[s].start_date # None
        /\ tks[stgs[s].task_id].due_date < day
        /\ tks[stgs[s].task_id].status_state_id = get_all_states("overdue")}

\* the second query: stages not completed, started, without completed_date,
\* whose task's due_date is before today
overdue_stages(tks, stgs, day) ==
    {s \in DOMAIN stgs :
        /\ stgs[s].status_state_id # get_all_states("completed")
        /\ stgs[s].completed_date = None
        /\ stgs[s].start_date # None
        /\ tks[stgs[s].task_id].due_date < day}

\* a third query whose window opens today
near_due_tasks_from_today(tks, day) ==
    {t \in DOMAIN tks :
        /\ tks[t].status_state_id # get_all_states("completed")
        /\ tks[t].due_date >= day
        /\ tks[t].due_date <= day + 2}

\* the third query: tasks not completed that are due tomorrow or the day after
near_due_tasks(tks, day) ==
    {t \in DOMAIN tks :
        /\ tks[t].status_state_id # get_all_states("completed")
        /\ tks[t].due_date >= day + 1
        /\ tks[t].due_date <= day + 2}

\* the mails of the first gather, keyed by the row they are about
overdue_mails(tks, stgs, day) ==
    LET ts == {t \in overdue_tasks(tks, day) : recipient(tks[t]) # NoText}
        ss == {s \in overdue_stages(tks, stgs, day) :
                  recipient(tks[stgs[s].task_id]) # NoText}
    IN [k \in ({"task"} \X ts) \cup ({"stage"} \X ss) |->
          IF k[1] = "task"
          THEN Mail("Task Overdue:", tks[k[2]].name, k[2], None, recipient(tks[k[2]]))
          ELSE Mail("Stage Overdue in Task", ToString(stgs[k[2]].task_id),
                    stgs[k[2]].task_id, k[2], recipient(tks[stgs[k[2]].task_id]))]

\* the mails of the second gather
reminder_mails(tks, day) ==
    LET ts == {t \in near_due_tasks(tks, day) : recipient(tks[t]) # NoText}
    IN [k \in {"task"} \X ts |->
          Mail("Reminder: Task Due Soon -", tks[k[2]].name, k[2], None, recipient(tks[k[2]]))]

\* check_overdue_and_notify: flag tasks and stages, commit, send the overdue
\* mails, then the reminders
CheckOverdueAndNotify ==
    LET comp_id == get_all_states("completed")
        over_id == get_all_states("overdue")
        late == overdue_tasks(tasks, today)
        late_stages == overdue_stages(tasks, stages, today)
        tasks1 == [t \in DOMAIN tasks |->
                     IF t \in late
                     THEN Touch(tasks[t], [tasks[t] EXCEPT !.status_state_id = over_id], today)
                     ELSE tasks[t]]
        stages1 == [s \in DOMAIN stages |->
                      IF s \in late_stages
                      THEN Touch(stages[s], [stages[s] EXCEPT !.status_state_id = over_id], today)
                      ELSE stages[s]]
        first == overdue_mails(tasks, stages, today)
        second == reminder_mails(tasks1, today)
    IN /\ Budget
       /\ IF comp_id = None \/ over_id = None
          THEN UNCHANGED <<tasks, stages, email_logs, email_queue, events>>
          ELSE /\ tasks' = tasks1
               /\ stages' = stages1
               /\ \E rows1, puts1 \in Perms(DOMAIN first), rows2, puts2 \in Perms(DOMAIN second) :
                    LET q1 == enqueue_email(email_logs, email_queue, first, rows1, puts1, today)
                        q2 == enqueue_email(q1.logs, q1.queue, second, rows2, puts2, today)
                    IN /\ email_logs' = q2.logs
                       /\ email_queue' = q2.queue
                       /\ events' = events \o
                             Puts(SubSeq(q2.queue, Len(email_queue) + 1, Len(q2.queue)))
       /\ last' = [op |-> "sweep", code |-> 0, id |-> None, req |-> None,
                   pre |-> [tasks |-> tasks, stages |-> stages,
                            nlogs |-> Len(email_logs), prev |-> last.op]]
       /\ UNCHANGED <<today, task_seq, stage_seq, archiveVars, worker, settings, smtp_log, hostVars, jobVars, producers, requests>>

\* the request bodies the sweep is driven with
SweepTasks ==
    {TaskCreate(due, user, None, None, orders) :
        due \in {FirstDay - 1, FirstDay, FirstDay + 2}, user \in {None, 1},
        orders \in {<<>>, <<1>>}}

SweepUpdates ==
    { StageUpdate(in_progress_id, None, None, None),
      StageUpdate(completed_id, 6, None, None) }

NextSweep ==
    \/ \E task_data \in SweepTasks : CreateTask(task_data)
    \/ \E s \in 1..MaxStages, update_data \in SweepUpdates : UpdateStage(s, update_data)
    \/ AdvanceDay
    \/ CheckOverdueAndNotify

SpecSweep == Init /\ [][NextSweep]_vars

\* the email_logs rows the last sweep inserted
SweepLogs == {i \in DOMAIN email_logs : i > last.pre.nlogs}

\* the "Task Overdue:" rows of the last sweep about task t that also have a
\* job on the queue
TaskOverdueMails(t) ==
    {i \in SweepLogs :
        /\ email_logs[i].subject[1] = "Task Overdue:"
        /\ email_logs[i].body.task_id = t
        /\ email_logs[i].status = "pending"
        /\ Cardinality({j \in DOMAIN email_queue : email_queue[j].log_id = i}) = 1}

\* C6: a second sweep on the same day, nothing in between, leaves every task
\* status and stage status as the first left them; only notifications grow.
C6_SweepIdempotent ==
    (last.op = "sweep" /\ last.pre.prev = "sweep") =>
        /\ DOMAIN tasks = DOMAIN last.pre.tasks
        /\ DOMAIN stages = DOMAIN last.pre.stages
        /\ \A t \in DOMAIN tasks :
              tasks[t].status_state_id = last.pre.tasks[t].status_state_id
        /\ \A s \in DOMAIN stages :
              stages[s].status_state_id = last.pre.stages[s].status_state_id
        /\ Len(email_logs) >= last.pre.nlogs

\* the second of two sweeps in a row found a task and a stage the first had
\* flagged, and notified again
C6_Witness ==
    /\ last.op = "sweep" /\ last.pre.prev = "sweep"
    /\ \E t \in DOMAIN tasks : tasks[t].status_state_id = overdue_id
    /\ \E s \in DOMAIN stages : stages[s].status_state_id = overdue_id
    /\ Len(email_logs) > last.pre.nlogs

\* C7: after a sweep every task that was not completed and past due is overdue;
\* the run enqueued exactly one "Task Overdue:" notification for it when it has
\* an assignee and none when it has not; a stage never started got no mail.
C7_SweepFlagsAndNotifies ==
    last.op = "sweep" =>
        /\ \A t \in DOMAIN last.pre.tasks :
              (/\ last.pre.tasks[t].status_state_id # completed_id
               /\ last.pre.tasks[t].due_date < today) =>
                 /\ tasks[t].status_state_id = overdue_id
                 /\ Cardinality(TaskOverdueMails(t)) =
                       IF last.pre.tasks[t].assigned_user_id # None THEN 1 ELSE 0
        /\ \A s \in DOMAIN last.pre.stages :
              last.pre.stages[s].start_date = None =>
                 /\ stages[s] = last.pre.stages[s]
                 /\ \A i \in SweepLogs : email_logs[i].body.stage_id # s

\* a sweep has flagged an assigned task that was due yesterday and whose one
\* stage is still pending, and has enqueued its one notification
C7_Witness ==
    /\ last.op = "sweep"
    /\ \E t \in DOMAIN tasks :
          /\ last.pre.tasks[t].status_state_id = pending_id
          /\ last.pre.tasks[t].due_date = today - 1
          /\ last.pre.tasks[t].assigned_user_id # None
          /\ \E s \in StagesOf(stages, t) : stages[s].status_state_id = pending_id
          /\ tasks[t].status_state_id = overdue_id
          /\ Cardinality(TaskOverdueMails(t)) = 1
          /\ Cardinality(SweepLogs) = 1

\* a selection that keeps a task through its thirtieth day
tasks_to_archive_strictly_before(tks, day) ==
    {t \in DOMAIN tks :
        /\ tks[t].status_state_id = get_all_states("completed")
        /\ tks[t].completed_date # None
        /\ tks[t].completed_date < day - ARCHIVE_DAYS}

\* ------------------------------------------------------------ archival job
\* the tasks archive_old_tasks selects: completed, completed_date (not NULL) on
\* or before today - 30 days
tasks_to_archive(tks, day) ==
    {t \in DOMAIN tks :
        /\ tks[t].status_state_id = get_all_states("completed")
        /\ tks[t].completed_date # None
        /\ tks[t].completed_date <= day - ARCHIVE_DAYS}

\* ArchivedTask(...) as archive_old_tasks fills it; archived_at is the server default
ArchivedTask(task_id, task, day) ==
    [task_id |-> task_id, name |-> task.name, description |-> task.description,
     status_state_id |-> task.status_state_id, due_date |-> task.due_date,
     completed_date |-> task.completed_date, priority |-> task.priority,
     assigned_user_id |-> task.assigned_user_id, created_by_id |-> task.created_by_id,
     idempotency_key |-> task.idempotency_key, created_at |-> task.created_at,
     updated_at |-> task.updated_at, archived_at |-> day]

\* ArchivedTaskStage(...) as archive_old_tasks fills it
ArchivedTaskStage(stage_id, stage, day) ==
    [stage_id |-> stage_id, task_id |-> stage.task_id, stage_name |-> stage.stage_name,
     estimated_time_hours |-> stage.estimated_time_hours,
     actual_time_hours |-> stage.actual_time_hours,
     status_state_id |-> stage.status_state_id, order_number |-> stage.order_number,
     start_date |-> stage.start_date, completed_date |-> stage.completed_date,
     created_at |-> stage.created_at, updated_at |-> stage.updated_at,
     archived_at |-> day]

\* archive_old_tasks: copy the selected tasks and their stages, delete the
\* tasks (their stages go with them), commit
ArchiveOldTasks ==
    LET old == tasks_to_archive(tasks, today)
        old_stages == {s \in DOMAIN stages : stages[s].task_id \in old}
    IN /\ Budget
       /\ archived_tasks' =
             [t \in old |-> ArchivedTask(t, tasks[t], today)] @@ archived_tasks
       /\ archived_stages' =
             [s \in old_stages |-> ArchivedTaskStage(s, stages[s], today)] @@ archived_stages
       /\ tasks' = [t \in DOMAIN tasks \ old |-> tasks[t]]
       /\ stages' = [s \in DOMAIN stages \ old_stages |-> stages[s]]
       /\ last' = [op |-> "archive", code |-> 0, id |-> None, req |-> None,
                   pre |-> [tasks |-> tasks, stages |-> stages,
                            nlogs |-> Len(email_logs), prev |-> last.op,
                            archived_tasks |-> archived_tasks,
                            archived_stages |-> archived_stages]]
       /\ UNCHANGED <<today, task_seq, stage_seq, mailVars, hostVars, jobVars, queueVars>>

\* the request bodies the archival job is driven with: stages completed 31, 30
\* and 29 days before the first day
ArchiveTasks ==
    {TaskCreate(FirstDay - ARCHIVE_DAYS, user, None, None, orders) :
        user \in {None, 1}, orders \in {<<>>, <<1>>, <<1, 2>>}}

ArchiveUpdates ==
    {StageUpdate(completed_id, 6, None, done) :
        done \in {FirstDay - ARCHIVE_DAYS - 1, FirstDay - ARCHIVE_DAYS,
                  FirstDay - ARCHIVE_DAYS + 1}}

\* a direct move to completed, which sets no completed_date
ArchivePatches ==
    {TaskUpdate(None, None, None, completed_id)}

NextArchive ==
    \/ \E task_data \in ArchiveTasks : CreateTask(task_data)
    \/ \E t \in 1..MaxTasks, update_data \in ArchivePatches : UpdateTask(t, update_data)
    \/ \E s \in 1..MaxStages, update_data \in ArchiveUpdates : UpdateStage(s, update_data)
    \/ \E t \in 1..MaxTasks : DeleteTask(t)
    \/ AdvanceDay
    \/ ArchiveOldTasks

SpecArchive == Init /\ [][NextArchive]_vars

\* the columns of a tasks row and of a task_stages row, the primary key apart
TaskColumns ==
    {"name", "description", "status_state_id", "due_date", "completed_date",
     "priority", "assigned_user_id", "created_by_id", "idempotency_key",
     "created_at", "updated_at", "is_deleted", "deleted_at"}

StageColumns ==
    {"task_id", "stage_name", "estimated_time_hours", "actual_time_hours",
     "status_state_id", "order_number", "start_date", "completed_date",
     "created_at", "updated_at"}

\* C8: archiving a completed task 30 days or more after its completed_date
\* removes it from the live tables and leaves one ArchivedTask and one
\* ArchivedStage per stage, every non-id column of the live rows copied equal.
C8_ArchiveCopiesEveryColumn ==
    last.op = "archive" =>
        \A t \in tasks_to_archive(last.pre.tasks, today) :
            /\ t \notin DOMAIN tasks
            /\ StagesOf(stages, t) = {}
            /\ t \in DOMAIN archived_tasks
            /\ {s \in DOMAIN archived_stages : archived_stages[s].task_id = t}
                  = StagesOf(last.pre.stages, t)
            /\ \A s \in StagesOf(last.pre.stages, t) : \A c \in StageColumns :
                  /\ c \in DOMAIN archived_stages[s]
                  /\ archived_stages[s][c] = last.pre.stages[s][c]
            /\ \A c \in TaskColumns :
                  /\ c \in DOMAIN archived_tasks[t]
                  /\ archived_tasks[t][c] = last.pre.tasks[t][c]

\* --------------------------------------------------------- delivery worker
\* send_email_async: a missing EMAIL_HOST skips the send; whatever
\* aiosmtplib.send raises is caught and printed, so the call returns either way
send_email_async(host, outcome) ==
    IF host = NoText THEN "returned"
    ELSE IF outcome = "ok" THEN "returned"
    ELSE "returned"

\* a caller of enqueue_email: one mail, its row, then its job
EnqueueEmail(mail) ==
    /\ Len(email_logs) < MaxMails
    /\ LET q == enqueue_email(email_logs, email_queue, (1 :> mail), <<1>>, <<1>>, today)
       IN /\ email_logs' = q.logs
          /\ email_queue' = q.queue
          /\ events' = events \o Puts(SubSeq(q.queue, Len(email_queue) + 1, Len(q.queue)))
    /\ last' = [op |-> "enqueue_email", code |-> 0, id |-> Len(email_logs) + 1,
                req |-> None, pre |-> None]
    /\ UNCHANGED <<ops, today, dbVars, archiveVars, worker, settings, smtp_log, hostVars, jobVars, producers, requests>>

\* a get that hands out the job put first and leaves it on the queue
email_queue_get_keep(queue) ==
    [job |-> Head(queue), rest |-> queue]

\* a get that hands out the job put last
email_queue_get_lifo(queue) ==
    [job |-> queue[Len(queue)], rest |-> SubSeq(queue, 1, Len(queue) - 1)]

\* asyncio.Queue.get on a queue that is not empty: the job put first leaves
email_queue_get(queue) ==
    [job |-> Head(queue), rest |-> Tail(queue)]

\* job = await email_queue.get()
WorkerGet ==
    /\ worker.pc = "get"
    /\ email_queue # <<>>
    /\ worker' = [pc |-> "send", job |-> email_queue_get(email_queue).job, error |-> NoText]
    /\ email_queue' = email_queue_get(email_queue).rest
    /\ events' = Append(events, [ev |-> "get", log_id |-> email_queue_get(email_queue).job.log_id])
    /\ last' = [op |-> "worker_get", code |-> 0, id |-> email_queue_get(email_queue).job.log_id,
                req |-> None, pre |-> None]
    /\ UNCHANGED <<ops, today, dbVars, archiveVars, email_logs, settings, smtp_log, hostVars, jobVars, producers, requests>>

\* await send_email_async(subject, body, to_email)
WorkerSend ==
    /\ worker.pc = "send"
    /\ \E outcome \in {"ok", "error"} :
          /\ smtp_log' =
                IF settings.EMAIL_HOST = NoText THEN smtp_log
                ELSE Append(smtp_log, [log_id |-> worker.job.log_id, outcome |-> outcome])
          /\ IF send_email_async(settings.EMAIL_HOST, outcome) = "returned"
             THEN worker' = [worker EXCEPT !.pc = "mark_sent"]
             ELSE worker' = [worker EXCEPT !.pc = "mark_failed", !.error = "smtp error"]
    /\ last' = [op |-> "worker_send", code |-> 0, id |-> worker.job.log_id,
                req |-> None, pre |-> None]
    /\ UNCHANGED <<ops, today, dbVars, archiveVars, email_logs, email_queue, settings, hostVars, jobVars, queueVars>>

\* the try block's session: status = "sent", sent_at, commit; an exception of
\* the session takes the worker to its except block
WorkerMarkSent ==
    /\ worker.pc = "mark_sent"
    /\ \E db_ok \in BOOLEAN :
          IF db_ok
          THEN /\ email_logs' = [email_logs EXCEPT ![worker.job.log_id] =
                                    [@ EXCEPT !.status = "sent", !.sent_at = today]]
               /\ worker' = [pc |-> "get", job |-> None, error |-> NoText]
               /\ events' = Append(events, [ev |-> "task_done", log_id |-> worker.job.log_id])
          ELSE /\ UNCHANGED <<email_logs, events>>
               /\ worker' = [worker EXCEPT !.pc = "mark_failed", !.error = "db error"]
    /\ last' = [op |-> "worker_mark_sent", code |-> 0, id |-> worker.job.log_id,
                req |-> None, pre |-> None]
    /\ UNCHANGED <<ops, today, dbVars, archiveVars, email_queue, settings, smtp_log, hostVars, jobVars, producers, requests>>

\* an except block that puts the job it failed on back on the queue
queue_after_failure_retry(queue, job) == Append(queue, job)

\* the except block leaves the queue alone: the job it failed on is gone
queue_after_failure(queue, job) == queue

\* a loop that ends with the first job it has marked failed
after_failed_job_stop == "stopped"

\* where the worker goes after its except and finally blocks: round the
\* `while True` to the next get
after_failed_job == "get"

\* the except block's session: status = "failed", error_message = str(e),
\* commit; an exception of this session leaves the loop and ends the coroutine
WorkerMarkFailed ==
    /\ worker.pc = "mark_failed"
    /\ \E db_ok \in BOOLEAN :
          IF db_ok
          THEN /\ email_logs' = [email_logs EXCEPT ![worker.job.log_id] =
                                    [@ EXCEPT !.status = "failed",
                                              !.error_message = worker.error]]
               /\ worker' = [pc |-> after_failed_job, job |-> None, error |-> NoText]
          ELSE /\ UNCHANGED email_logs
               /\ worker' = [pc |-> "dead", job |-> None, error |-> NoText]
    /\ email_queue' = queue_after_failure(email_queue, worker.job)
    /\ events' = Append(events, [ev |-> "task_done", log_id |-> worker.job.log_id])
    /\ last' = [op |-> "worker_mark_failed", code |-> 0, id |-> worker.job.log_id,
                req |-> None, pre |-> None]
    /\ UNCHANGED <<ops, today, dbVars, archiveVars, settings, smtp_log, hostVars, jobVars, producers, requests>>

\* the process has started, with or without a mail host configured
InitMail ==
    /\ InitRest
    /\ ops = 0
    /\ today = FirstDay
    /\ tasks = Empty
    /\ stages = Empty
    /\ task_seq = 0
    /\ stage_seq = 0
    /\ archived_tasks = Empty
    /\ archived_stages = Empty
    /\ email_logs = <<>>
    /\ email_queue = <<>>
    /\ worker = [pc |-> "get", job |-> None, error |-> NoText]
    /\ settings \in {[EMAIL_HOST |-> NoText], [EMAIL_HOST |-> "smtp"]}
    /\ smtp_log = <<>>
    /\ last = NoOp

\* the mails the queue is driven with
Mails ==
    { Mail("Notification: Task", "t", 1, None, "u@x"),
      Mail("Notification: Task", "t", 1, None, NoText) }

NextMail ==
    \/ \E mail \in Mails : EnqueueEmail(mail)
    \/ WorkerGet
    \/ WorkerSend
    \/ WorkerMarkSent
    \/ WorkerMarkFailed

SpecMail == InitMail /\ [][NextMail]_vars

\* the worker has finished with the job of email_logs row id
WorkerDoneWith(id) ==
    /\ \A j \in DOMAIN email_queue : email_queue[j].log_id # id
    /\ ~(worker.pc \in {"send", "mark_sent", "mark_failed"} /\ worker.job.log_id = id)

\* C10: when the mail transport fails for a job the worker took, the worker
\* leaves the job's row failed with a non-empty error_message, not sent, and
\* stays alive for the next job.
C10_TransportFailureMarksFailed ==
    \A i \in DOMAIN smtp_log :
        (smtp_log[i].outcome = "error" /\ WorkerDoneWith(smtp_log[i].log_id)) =>
            /\ email_logs[smtp_log[i].log_id].status = "failed"
            /\ email_logs[smtp_log[i].log_id].error_message # NoText
            /\ worker.pc # "dead"

\* C11: whatever fails while the worker handles a job, the transport call or
\* the database update that records sent or failed, the worker loop goes on: the
\* email_worker coroutine never ends.
C11_WorkerSurvivesJobFailure == worker.pc # "dead"

\* C12: a row of email_logs is created pending; its status changes at most
\* once, to sent or to failed, in a step of the worker on the row's own job; a
\* sent or failed row keeps its status.
C12_StatusChangesOnce ==
    [][/\ \A i \in DOMAIN email_logs :
             /\ i \in DOMAIN email_logs'
             /\ email_logs[i].status # "pending" =>
                    email_logs'[i].status = email_logs[i].status
             /\ email_logs'[i].status # email_logs[i].status =>
                    /\ email_logs'[i].status \in {"sent", "failed"}
                    /\ worker.pc \in {"mark_sent", "mark_failed"}
                    /\ worker.job.log_id = i
       /\ \A i \in DOMAIN email_logs' \ DOMAIN email_logs :
             email_logs'[i].status = "pending"]_vars

\* one row has ended sent and another failed
C12_Witness ==
    /\ \E i \in DOMAIN email_logs : email_logs[i].status = "sent"
    /\ \E i \in DOMAIN email_logs : email_logs[i].status = "failed"

\* the log_ids of the history entries of one kind, in order
LogIds(kind) ==
    LET Is(e) == e.ev = kind
        sel == SelectSeq(events, Is)
    IN [i \in DOMAIN sel |-> sel[i].log_id]

\* how many of the first n history entries are of one kind
Count(kind, n) == Cardinality({i \in 1..n : events[i].ev = kind})

\* C13: the worker takes the jobs in the order they were put on the queue,
\* and it takes a job only when every job it took before has been finished
\* (task_done): at most one job is in flight.
C13_FifoOneInFlight ==
    /\ \A i \in DOMAIN LogIds("get") :
          /\ i \in DOMAIN LogIds("put")
          /\ LogIds("get")[i] = LogIds("put")[i]
    /\ \A i \in DOMAIN events :
          events[i].ev = "get" => Count("get", i - 1) = Count("task_done", i - 1)
    /\ Count("get", Len(events)) - Count("task_done", Len(events)) \in {0, 1}

\* two jobs waited on the queue together and the worker has taken both
C13_Witness ==
    /\ Len(events) >= 4
    /\ events[1].ev = "put" /\ events[2].ev = "put"
    /\ Len(LogIds("get")) = 2

\* the calls of aiosmtplib.send for the job of row id
Attempts(id) == {i \in DOMAIN smtp_log : smtp_log[i].log_id = id}

\* C14: a job goes through the mail transport at most once: whether the
\* attempt fails or the worker fails to record it, the job is neither retried
\* nor put back on the queue.
C14_AtMostOneAttempt ==
    /\ \A id \in DOMAIN email_logs : Cardinality(Attempts(id)) <= 1
    /\ \A id \in DOMAIN email_logs :
          Attempts(id) # {} => \A j \in DOMAIN email_queue : email_queue[j].log_id # id

\* the transport failed for a job and the worker's except block has handled a
\* job, and the worker is through with both
C14_Witness ==
    /\ \E i \in DOMAIN smtp_log :
          smtp_log[i].outcome = "error" /\ WorkerDoneWith(smtp_log[i].log_id)
    /\ \E id \in DOMAIN email_logs :
          email_logs[id].status = "failed" /\ Attempts(id) # {}

\* ------------------------------------------- enqueue_email, step by step
\* the callers of enqueue_email that may run at the same time
Producers == 1..MaxProducers

\* a caller that goes on to the put whatever the commit did
after_commit_put_anyway(ok) == "put"

\* where a caller of enqueue_email stands after `await db.commit()`: on to the
\* put, or out of the function with the exception
after_commit(ok) == IF ok THEN "put" ELSE "raised"

\* a queue made with maxsize 1
queue_full_maxsize_one(queue) == Len(queue) >= 1

\* email_queue = asyncio.Queue(): maxsize 0, put never finds the queue full
queue_full(queue) == FALSE

\* the mail of caller p: to the task's user, or to nobody in particular
ProducerMail(p) ==
    Mail("Notification: Task", "t", 1, None, IF p % 2 = 1 THEN "u@x" ELSE NoText)

\* phase 1 of enqueue_email: add the pending row, commit, refresh, read its id
EnqueuePersist(p) ==
    /\ ~(p \in DOMAIN producers /\ producers[p].pc = "put")
    /\ Len(email_logs) < MaxMails
    /\ \E ok \in BOOLEAN, mail \in {ProducerMail(p)} :
          /\ email_logs' =
                IF ok THEN enqueue_email(email_logs, <<>>, (1 :> mail), <<1>>, <<>>, today).logs
                ELSE email_logs
          /\ producers' = (p :> [pc |-> after_commit(ok), mail |-> mail,
                                 log_id |-> IF ok THEN Len(email_logs) + 1 ELSE None])
                          @@ producers
          /\ last' = [op |-> "enqueue_persist", code |-> IF ok THEN 0 ELSE 500, id |-> p,
                      req |-> None, pre |-> None]
    /\ UNCHANGED <<ops, today, dbVars, archiveVars, email_queue, worker, settings,
                   smtp_log, hostVars, jobVars, events, requests>>

\* phase 2 of enqueue_email: await email_queue.put(job) and return
EnqueuePut(p) ==
    /\ p \in DOMAIN producers
    /\ producers[p].pc = "put"
    /\ ~queue_full(email_queue)
    /\ LET job == [log_id |-> producers[p].log_id, subject |-> producers[p].mail.subject,
                   body |-> producers[p].mail.body, to_email |-> producers[p].mail.to_email]
       IN /\ email_queue' = Append(email_queue, job)
          /\ events' = events \o Puts(<<job>>)
    /\ producers' = [producers EXCEPT ![p].pc = "returned"]
    /\ last' = [op |-> "enqueue_put", code |-> 0, id |-> p, req |-> None, pre |-> None]
    /\ UNCHANGED <<ops, today, dbVars, archiveVars, email_logs, worker, settings,
                   smtp_log, hostVars, jobVars, requests>>

NextQueue ==
    \/ \E p \in Producers : EnqueuePersist(p)
    \/ \E p \in Producers : EnqueuePut(p)
    \/ WorkerGet
    \/ WorkerSend
    \/ WorkerMarkSent
    \/ WorkerMarkFailed

SpecQueue == InitMail /\ [][NextQueue]_vars

\* the jobs that are on the queue or in the worker's hands
JobsAbout ==
    {email_queue[j] : j \in DOMAIN email_queue}
        \cup (IF worker.pc \in {"send", "mark_sent", "mark_failed"} THEN {worker.job} ELSE {})

\* C15: enqueue_email persists before it pushes: a job is put on the queue only
\* for a row that email_logs already holds, every job on the queue or in flight
\* carries the id of such a row (and the row's mail), and a caller whose
\* persist step failed has pushed nothing.
C15_PersistThenPush ==
    [][/\ \A j \in DOMAIN email_queue' :
             (j > Len(email_queue)) =>
                 /\ email_queue'[j].log_id \in DOMAIN email_logs
                 /\ email_logs[email_queue'[j].log_id].subject = email_queue'[j].subject
                 /\ email_logs[email_queue'[j].log_id].to_email = email_queue'[j].to_email
       /\ \A job \in JobsAbout' : job.log_id \in DOMAIN email_logs'
       /\ (last'.op = "enqueue_persist" /\ last'.code = 500) =>
             /\ email_queue' = email_queue
             /\ email_logs' = email_logs
             /\ producers'[last'.id].pc = "raised"]_vars

\* a row was persisted and its job pushed while another caller's persist failed
C15_Witness ==
    /\ \E p \in DOMAIN producers : producers[p].pc = "raised"
    /\ \E p \in DOMAIN producers : producers[p].pc = "returned"
    /\ email_queue # <<>>

\* the history entries that put the job of row id
PutsOf(id) == {i \in DOMAIN events : events[i] = [ev |-> "put", log_id |-> id]}

\* C16: a caller of enqueue_email that has persisted its row can always push
\* and return, whatever the worker is doing and however many jobs wait; with
\* several callers at once every returned call has put its job exactly once,
\* and every job put is on the queue or was taken by the worker, never both.
C16_EnqueueNeverWaits ==
    /\ \A p \in DOMAIN producers : producers[p].pc = "put" => ENABLED EnqueuePut(p)
    /\ \A p \in DOMAIN producers :
          producers[p].pc = "returned" => Cardinality(PutsOf(producers[p].log_id)) = 1
    /\ \A id \in DOMAIN email_logs :
          /\ Cardinality(PutsOf(id)) <= 1
          /\ Cardinality(PutsOf(id)) =
                Cardinality({j \in DOMAIN email_queue : email_queue[j].log_id = id})
                + Cardinality({i \in DOMAIN events : events[i] = [ev |-> "get", log_id |-> id]})

\* two callers were between persist and put together; the one that persisted
\* second put first, and the other put and returned while the worker was in
\* the transport call with no job taken off the queue since
C16_Witness ==
    /\ worker.pc = "send"
    /\ worker.job.log_id = 2
    /\ last.op = "enqueue_put"
    /\ Len(email_queue) = 1
    /\ email_queue[1].log_id = 1
    /\ \A p \in Producers : p \in DOMAIN producers /\ producers[p].pc = "returned"

\* ------------------------------------------ lifespan: the scheduler lock
\* the gunicorn worker processes on the host
Procs == 1..MaxProcs

\* a process that is not running: no lock_fd, no scheduler
Down == [pc |-> "down", lock_fd |-> FALSE, scheduler |-> FALSE]

\* a lock that anybody gets
flock_acquired_always(holder) == TRUE

\* fcntl.flock(lock_fd, LOCK_EX | LOCK_NB): acquired when no other open file
\* holds the lock, BlockingIOError otherwise
flock_acquired(holder) == holder = None

\* the lock after process p's descriptor of the lock file is closed or unlocked
released(holder, p) == IF holder = p THEN None ELSE holder

Lifespan(name, p) == [op |-> name, code |-> 0, id |-> p, req |-> None, pre |-> None]

\* gunicorn starts (or restarts) a worker; lifespan opens the lock file
ProcOpen(p) ==
    /\ procs[p].pc = "down"
    /\ \E opened \in BOOLEAN :
          procs' = [procs EXCEPT ![p] =
                       IF opened THEN [pc |-> "flock", lock_fd |-> TRUE, scheduler |-> FALSE]
                       ELSE [pc |-> "serving", lock_fd |-> FALSE, scheduler |-> FALSE]]
    /\ last' = Lifespan("open", p)
    /\ UNCHANGED <<ops, today, dbVars, archiveVars, mailVars, lock_holder, jobVars, queueVars>>

\* the flock call: on to setup_scheduler with the lock, or the except branch
\* that closes lock_fd and serves without a scheduler
ProcFlock(p) ==
    /\ procs[p].pc = "flock"
    /\ IF flock_acquired(lock_holder)
       THEN /\ lock_holder' = p
            /\ procs' = [procs EXCEPT ![p].pc = "setup"]
       ELSE /\ lock_holder' = lock_holder
            /\ procs' = [procs EXCEPT ![p] =
                            [pc |-> "serving", lock_fd |-> FALSE, scheduler |-> FALSE]]
    /\ last' = Lifespan("flock", p)
    /\ UNCHANGED <<ops, today, dbVars, archiveVars, mailVars, jobVars, queueVars>>

\* scheduler = setup_scheduler(): the scheduler runs; an IOError out of it
\* takes the except branch, which closes lock_fd
ProcSetupScheduler(p) ==
    /\ procs[p].pc = "setup"
    /\ \E started \in BOOLEAN :
          IF started
          THEN /\ procs' = [procs EXCEPT ![p].pc = "serving", ![p].scheduler = TRUE]
               /\ lock_holder' = lock_holder
          ELSE /\ procs' = [procs EXCEPT ![p] =
                               [pc |-> "serving", lock_fd |-> FALSE, scheduler |-> FALSE]]
               /\ lock_holder' = released(lock_holder, p)
    /\ last' = Lifespan("setup_scheduler", p)
    /\ UNCHANGED <<ops, today, dbVars, archiveVars, mailVars, jobVars, queueVars>>

\* after the yield: scheduler.shutdown(wait=True) when there is a scheduler,
\* else straight to the end of lifespan
ProcShutdown(p) ==
    /\ procs[p].pc = "serving"
    /\ procs' = [procs EXCEPT ![p] =
                    IF procs[p].scheduler
                    THEN [pc |-> "unlock", lock_fd |-> procs[p].lock_fd, scheduler |-> FALSE]
                    ELSE Down]
    /\ last' = Lifespan("shutdown", p)
    /\ UNCHANGED <<ops, today, dbVars, archiveVars, mailVars, lock_holder, jobVars, queueVars>>

\* flock(lock_fd, LOCK_UN); lock_fd.close(); the process ends
ProcUnlock(p) ==
    /\ procs[p].pc = "unlock"
    /\ lock_holder' = released(lock_holder, p)
    /\ procs' = [procs EXCEPT ![p] = Down]
    /\ last' = Lifespan("unlock", p)
    /\ UNCHANGED <<ops, today, dbVars, archiveVars, mailVars, jobVars, queueVars>>

\* the process is killed: its scheduler thread ends with it and the kernel
\* closes its descriptors, which releases its lock
ProcKill(p) ==
    /\ procs[p].pc # "down"
    /\ lock_holder' = released(lock_holder, p)
    /\ procs' = [procs EXCEPT ![p] = Down]
    /\ last' = Lifespan("kill", p)
    /\ UNCHANGED <<ops, today, dbVars, archiveVars, mailVars, jobVars, queueVars>>

\* the host before gunicorn has started a worker
InitLock ==
    /\ ops = 0
    /\ today = FirstDay
    /\ tasks = Empty
    /\ stages = Empty
    /\ task_seq = 0
    /\ stage_seq = 0
    /\ archived_tasks = Empty
    /\ archived_stages = Empty
    /\ email_logs = <<>>
    /\ email_queue = <<>>
    /\ worker = [pc |-> "get", job |-> None, error |-> NoText]
    /\ settings = [EMAIL_HOST |-> NoText]
    /\ smtp_log = <<>>
    /\ events = <<>>
    /\ producers = Empty
    /\ requests = Empty
    /\ procs = [p \in Procs |-> Down]
    /\ lock_holder = None
    /\ sweep = [pc |-> "idle"]
    /\ state_table = StateIds
    /\ last = NoOp

NextLock ==
    \/ \E p \in Procs : ProcOpen(p)
    \/ \E p \in Procs : ProcFlock(p)
    \/ \E p \in Procs : ProcSetupScheduler(p)
    \/ \E p \in Procs : ProcShutdown(p)
    \/ \E p \in Procs : ProcUnlock(p)
    \/ \E p \in Procs : ProcKill(p)

SpecLock == InitLock /\ [][NextLock]_vars

\* C17: at most one process runs the scheduler at any time, and a process whose
\* scheduler runs holds the lock: the scheduler starts after the lock is
\* acquired and the lock is released after the scheduler has been shut down.
C17_OneScheduler ==
    /\ Cardinality({p \in Procs : procs[p].scheduler}) <= 1
    /\ \A p \in Procs : procs[p].scheduler => lock_holder = p
    /\ \A p \in Procs : procs[p].pc \in {"setup", "unlock"} => lock_holder = p

\* one process runs the scheduler while a peer, refused the lock, serves
\* without one
C17_Witness ==
    \E p, q \in Procs :
        /\ p # q
        /\ procs[p].scheduler
        /\ last = Lifespan("flock", q)
        /\ procs[q].pc = "serving" /\ ~procs[q].scheduler

\* ------------------------------------------- the overdue sweep, step by step
\* a run that goes on to the notifications whatever the commit did
after_sweep_commit_notify_anyway(ok) == "notify"

\* where a run stands after `await db.commit()`: on to the gather of the
\* overdue mails, or in the except branch (rollback, the run is over)
after_sweep_commit(ok) == IF ok THEN "notify" ELSE "idle"

SweepStep(name) ==
    [op |-> name, code |-> 0, id |-> None, req |-> None,
     pre |-> [tasks |-> tasks, stages |-> stages, nlogs |-> Len(email_logs), prev |-> last.op]]

\* the run up to the commit: the session holds the tasks and stages as it
\* selected them and their new statuses, and the enqueue_email coroutines are
\* made, not awaited; or the stage phase raises, and the except branch rolls
\* back what the task phase had changed in the session
SweepBegin ==
    /\ sweep.pc = "idle"
    /\ Budget
    /\ \E ok \in BOOLEAN :
          IF get_all_states("completed") = None \/ get_all_states("overdue") = None
          THEN /\ ok
               /\ UNCHANGED sweep
               /\ last' = SweepStep("sweep_begin")
          ELSE IF ok
          THEN /\ sweep' = [pc |-> "commit", committed |-> FALSE, day |-> today,
                            seen |-> tasks, seen_stages |-> stages,
                            late |-> overdue_tasks(tasks, today),
                            late_stages |-> overdue_stages(tasks, stages, today),
                            mails |-> overdue_mails(tasks, stages, today)]
               /\ last' = SweepStep("sweep_begin")
          ELSE /\ UNCHANGED sweep
               /\ last' = [SweepStep("sweep_begin") EXCEPT !.code = 500]
    /\ UNCHANGED <<today, dbVars, archiveVars, mailVars, hostVars, state_table, queueVars>>

\* await db.commit(): the statuses the session changed are written over the
\* rows as they are by now, or the commit raises and the except branch rolls
\* the session back
SweepCommit ==
    /\ sweep.pc = "commit"
    /\ \E ok \in BOOLEAN :
          /\ IF ok
             THEN /\ tasks' = [t \in DOMAIN tasks |->
                                 IF t \in sweep.late
                                 THEN flush_row(tasks[t], sweep.seen[t],
                                                [sweep.seen[t] EXCEPT !.status_state_id =
                                                    get_all_states("overdue")], today)
                                 ELSE tasks[t]]
                  /\ stages' = [s \in DOMAIN stages |->
                                  IF s \in sweep.late_stages
                                  THEN flush_row(stages[s], sweep.seen_stages[s],
                                                 [sweep.seen_stages[s] EXCEPT !.status_state_id =
                                                     get_all_states("overdue")], today)
                                  ELSE stages[s]]
             ELSE UNCHANGED <<tasks, stages>>
          /\ sweep' = IF after_sweep_commit(ok) = "idle" THEN [pc |-> "idle"]
                      ELSE [sweep EXCEPT !.pc = after_sweep_commit(ok), !.committed = ok]
    /\ last' = SweepStep("sweep_commit")
    /\ UNCHANGED <<ops, today, task_seq, stage_seq, archiveVars, mailVars, hostVars,
                   state_table, queueVars>>

\* await asyncio.gather(*email_tasks): the overdue mails get their rows and jobs
SweepNotify ==
    /\ sweep.pc = "notify"
    /\ \E rows, puts \in Perms(DOMAIN sweep.mails) :
          LET q == enqueue_email(email_logs, email_queue, sweep.mails, rows, puts, today)
          IN /\ email_logs' = q.logs
             /\ email_queue' = q.queue
             /\ events' = events \o Puts(SubSeq(q.queue, Len(email_queue) + 1, Len(q.queue)))
    /\ sweep' = [sweep EXCEPT !.pc = "remind"]
    /\ last' = SweepStep("sweep_notify")
    /\ UNCHANGED <<ops, today, dbVars, archiveVars, worker, settings, smtp_log, hostVars,
                   state_table, producers, requests>>

\* the reminders: select the tasks due soon, gather their mails; or the
\* select raises and the except branch rolls back a session without changes;
\* the run ends
SweepRemind ==
    /\ sweep.pc = "remind"
    /\ \/ LET mails == reminder_mails(tasks, sweep.day)
          IN \E rows, puts \in Perms(DOMAIN mails) :
                LET q == enqueue_email(email_logs, email_queue, mails, rows, puts, today)
                IN /\ email_logs' = q.logs
                   /\ email_queue' = q.queue
                   /\ events' = events \o
                         Puts(SubSeq(q.queue, Len(email_queue) + 1, Len(q.queue)))
                   /\ last' = SweepStep("sweep_remind")
       \/ /\ UNCHANGED <<email_logs, email_queue, events>>
          /\ last' = [SweepStep("sweep_remind") EXCEPT !.code = 500]
    /\ sweep' = [pc |-> "idle"]
    /\ UNCHANGED <<ops, today, dbVars, archiveVars, worker, settings, smtp_log, hostVars,
                   state_table, producers, requests>>

\* the process is killed in the middle of a run: the session and the
\* coroutines not yet awaited are gone
SweepKill ==
    /\ sweep.pc # "idle"
    /\ sweep' = [pc |-> "idle"]
    /\ last' = SweepStep("sweep_kill")
    /\ UNCHANGED <<ops, today, dbVars, archiveVars, mailVars, hostVars, state_table, queueVars>>

\* the request bodies the stepped sweep is driven with
SweepStepTasks ==
    {TaskCreate(due, user, None, None, <<1>>) :
        due \in {FirstDay - 1, FirstDay}, user \in {None, 1}}

NextSweepSteps ==
    \/ \E task_data \in SweepStepTasks : CreateTask(task_data)
    \/ \E s \in 1..MaxStages, update_data \in SweepUpdates : UpdateStage(s, update_data)
    \/ AdvanceDay
    \/ SweepBegin
    \/ SweepCommit
    \/ SweepNotify
    \/ SweepRemind
    \/ SweepKill

SpecSweepSteps == Init /\ [][NextSweepSteps]_vars

\* the rows of email_logs that tell of an overdue task or stage
OverdueLogs(logs) ==
    {i \in DOMAIN logs : logs[i].subject[1] \in {"Task Overdue:", "Stage Overdue in Task"}}

\* C18: the overdue mails of a run get their rows and jobs only after the
\* run's commit of the status changes has succeeded: a run whose commit failed
\* or that was killed before its commit leaves no overdue notification.
C18_CommitBeforeNotify ==
    [][/\ OverdueLogs(email_logs') # OverdueLogs(email_logs) =>
             /\ sweep.pc = "notify"
             /\ sweep.committed
             /\ \A i \in OverdueLogs(email_logs') \ OverdueLogs(email_logs) :
                   \E k \in DOMAIN sweep.mails :
                      /\ sweep.mails[k].body = email_logs'[i].body
                      /\ IF k[1] = "task" THEN k[2] \in sweep.late ELSE k[2] \in sweep.late_stages
       /\ (sweep.pc = "commit" /\ sweep'.pc = "idle") =>
             /\ email_logs' = email_logs
             /\ email_queue' = email_queue
             /\ tasks' = tasks /\ stages' = stages]_vars

\* an earlier run has notified; the commit of a later run has just failed, which
\* leaves a started stage of a past-due task unflagged and without its mail
C18_Witness ==
    /\ OverdueLogs(email_logs) # {}
    /\ last.op = "sweep_commit"
    /\ sweep.pc = "idle"
    /\ \E s \in overdue_stages(tasks, stages, today) :
          /\ stages[s].status_state_id # overdue_id
          /\ recipient(tasks[stages[s].task_id]) # NoText
          /\ \A i \in OverdueLogs(email_logs) : email_logs[i].body.stage_id # s

\* ----------------------------------- the sweep over a states table in any shape
\* a database whose states table holds any of the four rows; one task, due
\* yesterday or later, in a status that has a row, with or without a started
\* stage
InitSweepStates ==
    /\ state_table \in SUBSET StateIds
    /\ ops = 0
    /\ today = FirstDay
    /\ \/ tasks = Empty /\ stages = Empty
       \/ \E status \in state_table, due \in {FirstDay - 1, FirstDay + 1}, user \in {None, 1} :
             /\ tasks = (1 :> [create_task(Empty, Empty, 0, 0,
                                   TaskCreate(due, user, None, None, <<>>), 1, FirstDay - 1).tasks[1]
                               EXCEPT !.status_state_id = status])
             /\ \/ stages = Empty
                \/ \E stage_status \in state_table \ {completed_id} :
                      stages = (1 :> [NewStage(1, 1, 6, FirstDay - 1) EXCEPT
                                         !.status_state_id = stage_status,
                                         !.start_date = FirstDay - 1])
    /\ task_seq = Cardinality(DOMAIN tasks)
    /\ stage_seq = Cardinality(DOMAIN stages)
    /\ archived_tasks = Empty
    /\ archived_stages = Empty
    /\ email_logs = <<>>
    /\ email_queue = <<>>
    /\ worker = [pc |-> "get", job |-> None, error |-> NoText]
    /\ settings = [EMAIL_HOST |-> NoText]
    /\ smtp_log = <<>>
    /\ events = <<>>
    /\ producers = Empty
    /\ requests = Empty
    /\ procs = Empty
    /\ lock_holder = None
    /\ sweep = [pc |-> "idle"]
    /\ last = NoOp

NextSweepStates == CheckOverdueAndNotify

SpecSweepStates == InitSweepStates /\ [][NextSweepStates]_vars

\* C19: a sweep that finds no `completed` row or no `overdue` row in the states
\* table returns without changing a task or a stage and without a notification
\* row or job; the job can run again afterwards.
C19_MissingStateAborts ==
    (/\ last.op = "sweep"
     /\ (completed_id \notin state_table \/ overdue_id \notin state_table)) =>
        /\ tasks = last.pre.tasks
        /\ stages = last.pre.stages
        /\ Len(email_logs) = last.pre.nlogs
        /\ email_queue = <<>>
        /\ events = <<>>
        /\ ops < MaxOps => ENABLED CheckOverdueAndNotify

\* a sweep has run without an `overdue` row over an assigned task that is past
\* due and not completed, and over a started stage of it
C19_Witness ==
    /\ last.op = "sweep"
    /\ overdue_id \notin state_table
    /\ completed_id \in state_table
    /\ \E t \in DOMAIN tasks :
          /\ tasks[t].due_date < today
          /\ tasks[t].status_state_id # completed_id
          /\ tasks[t].assigned_user_id = 1
          /\ \E s \in StagesOf(stages, t) : stages[s].start_date # None

\* --------------------------------------- an archival run that can fail midway
\* the tasks table before a run: MaxArchive tasks, each completed around the
\* archive threshold with its one stage
ArchiveShapes ==
    [completed_date : {FirstDay - ARCHIVE_DAYS - 1, FirstDay - ARCHIVE_DAYS,
                       FirstDay - ARCHIVE_DAYS + 1},
     assigned_user_id : {None, 1}]

InitArchiveRun ==
    /\ InitRest
    /\ ops = 0
    /\ today = FirstDay
    /\ \E shape \in [1..MaxArchive -> ArchiveShapes] :
          /\ tasks = [t \in 1..MaxArchive |->
                        [create_task(Empty, Empty, 0, 0,
                            TaskCreate(FirstDay - ARCHIVE_DAYS, shape[t].assigned_user_id,
                                       None, None, <<>>), 1, FirstDay - ARCHIVE_DAYS - 1).tasks[1]
                         EXCEPT !.name = ToString(t),
                                !.status_state_id = completed_id,
                                !.completed_date = shape[t].completed_date]]
          /\ stages = [s \in 1..MaxArchive |->
                         [NewStage(s, 1, 6, FirstDay - ARCHIVE_DAYS - 1) EXCEPT
                             !.status_state_id = completed_id,
                             !.actual_time_hours = 6,
                             !.start_date = FirstDay - ARCHIVE_DAYS - 1,
                             !.completed_date = shape[s].completed_date]]
    /\ task_seq = MaxArchive
    /\ stage_seq = MaxArchive
    /\ archived_tasks = Empty
    /\ archived_stages = Empty
    /\ email_logs = <<>>
    /\ email_queue = <<>>
    /\ worker = [pc |-> "get", job |-> None, error |-> NoText]
    /\ settings = [EMAIL_HOST |-> NoText]
    /\ smtp_log = <<>>
    /\ last = NoOp

\* a run that commits each archive copy as it is added: when a task fails, the
\* copies of the tasks before it are in the archive and their live rows remain
archive_old_tasks_copies_committed(tks, stgs, atks, astgs, order, fail_at, day) ==
    LET old == IF fail_at = None THEN Range(order)
               ELSE {order[i] : i \in 1..(fail_at - 1)}
        old_stages == {s \in DOMAIN stgs : stgs[s].task_id \in old}
        kept == IF fail_at = None THEN old ELSE {}
        kept_stages == IF fail_at = None THEN old_stages ELSE {}
    IN [tasks |-> [t \in DOMAIN tks \ kept |-> tks[t]],
        stages |-> [s \in DOMAIN stgs \ kept_stages |-> stgs[s]],
        archived_tasks |-> [t \in old |-> ArchivedTask(t, tks[t], day)] @@ atks,
        archived_stages |->
            [s \in old_stages |-> ArchivedTaskStage(s, stgs[s], day)] @@ astgs]

\* archive_old_tasks with the database free to fail: the tasks are handled in
\* the order the query returns them (order); fail_at is the place in that order
\* of the task whose copy or delete raises (None: nothing raises). Every write
\* of the run sits in one session that is committed once after the loop, and
\* the except branch rolls the session back.
archive_old_tasks(tks, stgs, atks, astgs, order, fail_at, day) ==
    LET old == Range(order)
        old_stages == {s \in DOMAIN stgs : stgs[s].task_id \in old}
    IN IF fail_at # None
       THEN [tasks |-> tks, stages |-> stgs, archived_tasks |-> atks, archived_stages |-> astgs]
       ELSE [tasks |-> [t \in DOMAIN tks \ old |-> tks[t]],
             stages |-> [s \in DOMAIN stgs \ old_stages |-> stgs[s]],
             archived_tasks |-> [t \in old |-> ArchivedTask(t, tks[t], day)] @@ atks,
             archived_stages |->
                 [s \in old_stages |-> ArchivedTaskStage(s, stgs[s], day)] @@ astgs]

\* one run of the job
ArchiveRun ==
    /\ Budget
    /\ \E order \in Perms(tasks_to_archive(tasks, today)) :
       \E fail_at \in {None} \cup DOMAIN order :
          LET run == archive_old_tasks(tasks, stages, archived_tasks, archived_stages,
                                       order, fail_at, today)
          IN /\ tasks' = run.tasks
             /\ stages' = run.stages
             /\ archived_tasks' = run.archived_tasks
             /\ archived_stages' = run.archived_stages
             /\ last' = [op |-> "archive", code |-> IF fail_at = None THEN 0 ELSE 500,
                         id |-> None, req |-> [order |-> order, fail_at |-> fail_at],
                         pre |-> [tasks |-> tasks, stages |-> stages,
                                  nlogs |-> Len(email_logs), prev |-> last.op]]
    /\ UNCHANGED <<today, task_seq, stage_seq, mailVars, hostVars, jobVars, queueVars>>

NextArchiveRun ==
    \/ AdvanceDay
    \/ ArchiveRun

SpecArchiveRun == InitArchiveRun /\ [][NextArchiveRun]_vars

\* C20: when a run fails on one of several eligible tasks, the tasks it
\* handled before that one stay archived and out of the tasks table: the commit
\* is per task.
C20_EarlierTasksStayArchived ==
    (last.op = "archive" /\ last.code = 500) =>
        \A i \in DOMAIN last.req.order :
            i < last.req.fail_at =>
                /\ last.req.order[i] \in DOMAIN archived_tasks
                /\ last.req.order[i] \notin DOMAIN tasks

\* ------------------------------------------------------- archival selection
\* C21: an archival run archives exactly the tasks that are completed with a
\* completed_date on or before today - 30 days. Every other task (completed
\* more recently, completed without a completed_date, not completed) and its
\* stages stay in the live tables unchanged and get no archive row, and a run
\* that finds no such task changes nothing.
C21_ArchivesExactlyEligible ==
    last.op = "archive" =>
        LET pre == last.pre
            eligible == {t \in DOMAIN pre.tasks :
                            /\ pre.tasks[t].status_state_id = completed_id
                            /\ pre.tasks[t].completed_date # None
                            /\ pre.tasks[t].completed_date <= today - ARCHIVE_DAYS}
        IN /\ \A t \in eligible :
                 t \notin DOMAIN tasks /\ t \in DOMAIN archived_tasks
           /\ \A t \in DOMAIN pre.tasks \ eligible :
                 /\ t \in DOMAIN tasks
                 /\ tasks[t] = pre.tasks[t]
                 /\ t \notin DOMAIN archived_tasks
                 /\ \A s \in StagesOf(pre.stages, t) :
                       /\ s \in DOMAIN stages
                       /\ stages[s] = pre.stages[s]
                       /\ s \notin DOMAIN archived_stages
           /\ eligible = {} =>
                 /\ tasks = pre.tasks
                 /\ stages = pre.stages
                 /\ archived_tasks = pre.archived_tasks
                 /\ archived_stages = pre.archived_stages

\* a run has archived a task completed exactly 30 days before
C21_Witness ==
    /\ last.op = "archive"
    /\ \E t \in DOMAIN last.pre.tasks :
          /\ last.pre.tasks[t].completed_date = today - ARCHIVE_DAYS
          /\ t \in DOMAIN archived_tasks
          /\ t \notin DOMAIN tasks

\* ------------------------------------------- direct updates and soft delete
\* the request bodies the task endpoints are driven with
PatchTasks ==
    {TaskCreate(FirstDay + 3, None, None, None, orders) :
        orders \in {<<>>, <<1>>, <<1, 2>>}}

PatchUpdates ==
    { StageUpdate(in_progress_id, None, None, None),
      StageUpdate(completed_id, 6, None, None) }

TaskPatches ==
    { TaskUpdate(None, None, None, completed_id),
      TaskUpdate(None, FirstDay + 1, None, None) }

NextPatch ==
    \/ \E task_data \in PatchTasks : CreateTask(task_data)
    \/ \E s \in 1..MaxStages, update_data \in PatchUpdates : UpdateStage(s, update_data)
    \/ \E t \in 1..MaxTasks, update_data \in TaskPatches : UpdateTask(t, update_data)
    \/ \E t \in 1..MaxTasks : GetTask(t)
    \/ \E t \in 1..MaxTasks : DeleteTask(t)

SpecPatch == Init /\ [][NextPatch]_vars

\* C22: a direct update that sets a live task's status to completed is
\* rejected with 400 and changes nothing when a stage of the task is not
\* completed; it is accepted and the task becomes completed when every stage
\* is completed or the task has no stage.
C22_CompletionNeedsClosedStages ==
    [][ ( /\ last'.op = "update_task"
          /\ ops' # ops
          /\ last'.req.status_state_id = completed_id
          /\ last'.id \in DOMAIN tasks
          /\ ~tasks[last'.id].is_deleted ) =>
        IF \E s \in DOMAIN stages :
              /\ stages[s].task_id = last'.id
              /\ stages[s].status_state_id # completed_id
        THEN /\ last'.code = 400
             /\ UNCHANGED <<dbVars, archiveVars>>
        ELSE /\ last'.code = 200
             /\ tasks'[last'.id].status_state_id = completed_id
             /\ stages' = stages ]_vars

\* a direct completion was refused for a task with one stage completed and
\* one still open
C22_Witness ==
    /\ last.op = "update_task" /\ last.code = 400
    /\ last.req.status_state_id = completed_id
    /\ \E a, b \in StagesOf(stages, last.id) :
          /\ stages[a].status_state_id = completed_id
          /\ stages[b].status_state_id # completed_id
    /\ tasks[last.id].status_state_id # completed_id

\* C24: deleting a live task keeps its row and its stages and only marks the
\* row (is_deleted, deleted_at); from then on a get, an update and another
\* delete of that task answer 404 and change nothing.
C24_SoftDeleteThenNotFound ==
    [][ \A t \in DOMAIN tasks :
          (ops' # ops /\ last'.id = t) =>
             /\ (last'.op = "delete_task" /\ ~tasks[t].is_deleted) =>
                   /\ last'.code = 204
                   /\ DOMAIN tasks' = DOMAIN tasks
                   /\ [tasks'[t] EXCEPT !.updated_at = tasks[t].updated_at] =
                         [tasks[t] EXCEPT !.is_deleted = TRUE, !.deleted_at = today]
                   /\ \A u \in DOMAIN tasks \ {t} : tasks'[u] = tasks[u]
                   /\ stages' = stages
             /\ (/\ last'.op \in {"get_task", "update_task", "delete_task"}
                 /\ tasks[t].is_deleted) =>
                   /\ last'.code = 404
                   /\ UNCHANGED <<dbVars, archiveVars>> ]_vars

\* a task with a stage was deleted, and a second delete got 404 while the row
\* and its stage are still there
C24_Witness ==
    /\ last.op = "delete_task" /\ last.code = 404
    /\ last.pre.is_deleted
    /\ tasks[last.id].is_deleted
    /\ tasks[last.id].deleted_at # None
    /\ StagesOf(stages, last.id) # {}

\* C23: a stage update whose stage_id names no stage, or whose new status id
\* names no row of the states table, answers 404 and changes nothing.
C23_UnknownStageOrStatusIs404 ==
    [][ ( /\ last'.op = "update_stage"
          /\ ops' # ops
          /\ \/ last'.id \notin DOMAIN stages
             \/ last'.req.status_state_id \notin state_table ) =>
        /\ last'.code = 404
        /\ UNCHANGED <<dbVars, archiveVars>> ]_vars

\* an existing stage was sent a status id that no State row has
C23_Witness ==
    /\ last.op = "update_stage" /\ last.code = 404
    /\ last.id \in DOMAIN stages
    /\ last.req.status_state_id \notin state_table
    /\ stages[last.id] = last.pre

\* ------------------------------------------------------- concurrent creates
\* the HTTP requests that can be under way at once, each with its own session
Requests == 1..MaxRequests

\* POST /tasks/ up to its first await: the idempotency SELECT; a request that
\* finds the task returns it, another goes on to the INSERT
CreateSelect(r, task_data) ==
    /\ r \notin DOMAIN requests
    /\ LET existing == existing_task(tasks, task_data)
       IN requests' =
             (r :> IF existing # {}
                   THEN [kind |-> "create", pc |-> "returned", body |-> task_data,
                         code |-> 201, task_id |-> CHOOSE t \in existing : TRUE]
                   ELSE [kind |-> "create", pc |-> "insert", body |-> task_data,
                         code |-> 0, task_id |-> None]) @@ requests
    /\ last' = [op |-> "create_select", code |-> 0, id |-> r, req |-> task_data,
                pre |-> None]
    /\ UNCHANGED <<ops, today, dbVars, archiveVars, mailVars, hostVars, jobVars,
                   events, producers>>

\* POST /tasks/ from the INSERT to the commit, against the tables as they are
\* by then
CreateInsert(r) ==
    /\ r \in DOMAIN requests
    /\ requests[r].kind = "create" /\ requests[r].pc = "insert"
    /\ LET c == insert_task(tasks, stages, task_seq, stage_seq, requests[r].body, 1, today)
       IN /\ tasks' = c.tasks
          /\ stages' = c.stages
          /\ task_seq' = c.tseq
          /\ stage_seq' = c.sseq
          /\ requests' = [requests EXCEPT
                             ![r].pc = IF c.code = 201 THEN "returned" ELSE "raised",
                             ![r].code = c.code, ![r].task_id = c.task_id]
          /\ last' = [op |-> "create_insert", code |-> c.code, id |-> r,
                      req |-> requests[r].body, pre |-> None]
    /\ UNCHANGED <<ops, today, archiveVars, mailVars, hostVars, jobVars, events, producers>>

\* the request bodies the concurrent creates are driven with: no key, or the
\* one key 1
CreateBodies ==
    {TaskCreate(FirstDay + 3, None, key, None, <<1>>) : key \in {None, 1}}

NextCreate ==
    \/ \E r \in Requests, task_data \in CreateBodies : CreateSelect(r, task_data)
    \/ \E r \in Requests : CreateInsert(r)
    \/ \E t \in 1..MaxRequests : DeleteTask(t)

SpecCreate == Init /\ [][NextCreate]_vars

MutateTasks ==
    {TaskCreate(FirstDay, None, None, None, orders) : orders \in {<<1>>, <<1, 2>>}}

MutateUpdates ==
    { StageUpdate(pending_id, None, None, None),
      StageUpdate(completed_id, 6, None, None) }

NextMutate ==
    \/ \E task_data \in MutateTasks : CreateTask(task_data)
    \/ \E s \in 1..MaxStages, update_data \in MutateUpdates : UpdateStage(s, update_data)
    \/ \E t \in 1..MaxTasks : AddStage(t)
    \/ \E s \in 1..MaxStages : DeleteStage(s)
    \/ \E t \in 1..MaxTasks : UpdateTask(t, TaskUpdate(None, None, None, completed_id))
    \/ AdvanceDay

SpecMutate == Init /\ [][NextMutate]_vars

\* C26: a task whose status is completed has every one of its stages
\* completed, whatever stage transitions, added or deleted stages and direct
\* status updates came before.
C26_CompletedTaskHasClosedStages ==
    \A t \in DOMAIN tasks :
        tasks[t].status_state_id = completed_id =>
            \A s \in StagesOf(stages, t) : stages[s].status_state_id = completed_id

\* the task a stage mutation was about
mutated_task ==
    CASE last.op = "update_stage" -> last.pre.task_id
      [] last.op = "delete_stage" -> last.pre[last.id].task_id
      [] OTHER -> last.id

\* C29: when a stage transition, a stage deletion or the adding of a stage
\* has returned, the status of the owning task is the one the propagation
\* rules give: recomputing it once more leaves it as it is.
C29_StatusRecomputedAfterMutation ==
    ( \/ last.op = "update_stage" /\ last.code = 200
      \/ last.op = "delete_stage" /\ last.code = 200
      \/ last.op = "add_stage" /\ last.code = 201 ) =>
        (mutated_task \in DOMAIN tasks =>
            update_task_status_from_stages(tasks, stages, mutated_task, today)
                [mutated_task].status_state_id = tasks[mutated_task].status_state_id)

\* ---------------------------------------------- concurrent stage transitions
\* PUT /tasks/stages/{stage_id} up to its commit: the session loads the stage,
\* changes it, loads the task with its stages and derives the task's status;
\* it sees its own change and what others have committed
StageTxRead(r, stage_id, update_data) ==
    /\ r \notin DOMAIN requests
    /\ LET u == update_stage(stages, stage_id, update_data, today)
       IN requests' =
             (r :> IF u.code # 200
                   THEN [kind |-> "stage", pc |-> "raised", code |-> u.code,
                         stage_id |-> stage_id, req |-> update_data]
                   ELSE LET seen == [stages EXCEPT ![stage_id] = u.stage]
                            task_id == u.stage.task_id
                        IN [kind |-> "stage", pc |-> "commit", code |-> 0,
                            stage_id |-> stage_id, req |-> update_data,
                            task_id |-> task_id,
                            stage_old |-> stages[stage_id], stage_new |-> u.stage,
                            task_old |-> tasks[task_id],
                            task_new |-> update_task_status_from_stages(
                                            tasks, seen, task_id, today)[task_id]])
             @@ requests
    /\ last' = [op |-> "stage_read", code |-> 0, id |-> r, req |-> update_data,
                pre |-> None]
    /\ UNCHANGED <<ops, today, dbVars, archiveVars, mailVars, hostVars, jobVars,
                   events, producers>>

\* the router's commit: both rows are flushed and the request returns
StageTxCommit(r) ==
    /\ r \in DOMAIN requests
    /\ requests[r].kind = "stage" /\ requests[r].pc = "commit"
    /\ LET q == requests[r]
       IN /\ stages' = [stages EXCEPT ![q.stage_id] =
                           flush_row(@, q.stage_old, q.stage_new, today)]
          /\ tasks' = [tasks EXCEPT ![q.task_id] =
                          flush_row(@, q.task_old, q.task_new, today)]
          /\ requests' = [requests EXCEPT ![r].pc = "returned", ![r].code = 200]
          /\ last' = [op |-> "stage_commit", code |-> 200, id |-> r, req |-> q.req,
                      pre |-> None]
    /\ UNCHANGED <<ops, today, task_seq, stage_seq, archiveVars, mailVars, hostVars,
                   jobVars, events, producers>>

\* the request bodies the concurrent transitions are driven with
StageTxTasks ==
    {TaskCreate(FirstDay + 3, None, None, None, orders) : orders \in {<<1>>, <<1, 2>>}}

StageTxUpdates ==
    { StageUpdate(in_progress_id, None, None, None),
      StageUpdate(completed_id, 6, None, None) }

NextStageTx ==
    \/ \E task_data \in StageTxTasks : CreateTask(task_data)
    \/ \E r \in Requests, s \in 1..MaxStages, update_data \in StageTxUpdates :
          StageTxRead(r, s, update_data)
    \/ \E r \in Requests : StageTxCommit(r)

SpecStageTx == Init /\ [][NextStageTx]_vars

\* C27: when two stage transitions on two different stages of one task, each
\* in its own request, have both committed a move to completed and every
\* stage of the task is completed, the task is completed.
C27_ConcurrentCompletionsCompleteTask ==
    \A a, b \in DOMAIN requests :
        ( /\ a # b
          /\ requests[a].kind = "stage" /\ requests[b].kind = "stage"
          /\ requests[a].pc = "returned" /\ requests[b].pc = "returned"
          /\ requests[a].req.status_state_id = completed_id
          /\ requests[b].req.status_state_id = completed_id
          /\ requests[a].stage_id # requests[b].stage_id
          /\ requests[a].task_id = requests[b].task_id
          /\ \A s \in StagesOf(stages, requests[a].task_id) :
                stages[s].status_state_id = completed_id ) =>
            tasks[requests[a].task_id].status_state_id = completed_id

\* ------------------------------------------ the sweep next to the requests
\* C28 as stated: the commit of a sweep never turns a task that is completed
\* in the database into overdue, also when a stage transition has completed
\* the task while the run was under way.
C28_SweepNeverOverwritesCompleted ==
    last.op = "sweep_commit" =>
        \A t \in DOMAIN last.pre.tasks :
            last.pre.tasks[t].status_state_id = completed_id =>
                tasks[t].status_state_id # overdue_id

\* C28: the commit of a sweep turns into overdue only tasks that were past
\* due and not completed in the database when the run selected them; what a
\* request has committed to the row since then is overwritten.
C28_SweepFlagsWhatItSelected ==
    [][ last'.op = "sweep_commit" =>
          \A t \in DOMAIN tasks :
             ( /\ tasks'[t].status_state_id = overdue_id
               /\ tasks[t].status_state_id # overdue_id ) =>
                 /\ t \in DOMAIN sweep.seen
                 /\ sweep.seen[t].status_state_id # completed_id
                 /\ sweep.seen[t].due_date < sweep.day ]_vars

\* a run selected a past-due open task, a stage transition then completed the
\* task, and the run's commit has made it overdue with every stage completed
C28_Witness ==
    /\ last.op = "sweep_commit"
    /\ \E t \in DOMAIN tasks :
          /\ last.pre.tasks[t].status_state_id = completed_id
          /\ tasks[t].status_state_id = overdue_id
          /\ StagesOf(stages, t) # {}
          /\ \A s \in StagesOf(stages, t) : stages[s].status_state_id = completed_id

\* C30: an exception in a later phase of a sweep run (the overdue stages, the
\* reminders) undoes that phase only: the tasks the task phase of the run made
\* overdue are overdue in the database.
C30_PhasesFaultIsolated ==
    /\ (last.op = "sweep_begin" /\ last.code = 500) =>
          \A t \in DOMAIN last.pre.tasks :
             ( /\ last.pre.tasks[t].status_state_id # completed_id
               /\ last.pre.tasks[t].due_date < today ) =>
                 tasks[t].status_state_id = overdue_id
    /\ (last.op = "sweep_remind" /\ last.code = 500) =>
          /\ tasks = last.pre.tasks
          /\ stages = last.pre.stages

C32_OrderNumbersDistinct ==
    /\ \A s \in DOMAIN stages : stages[s].order_number >= 1
    /\ \A a, b \in DOMAIN stages :
          (a # b /\ stages[a].task_id = stages[b].task_id) =>
              stages[a].order_number # stages[b].order_number

\* ------------------------------------------------------- crash and restart
\* a start-up that puts a job on the queue for every row still pending
queue_at_startup_requeue_pending(logs) ==
    LET Pending(i) == logs[i].status = "pending"
        ids == SelectSeq([i \in DOMAIN logs |-> i], Pending)
    IN [k \in DOMAIN ids |->
           [log_id |-> ids[k], subject |-> logs[ids[k]].subject,
            body |-> logs[ids[k]].body, to_email |-> logs[ids[k]].to_email]]

\* the queue of a process that has just started: asyncio.Queue() at import,
\* and nothing reads email_logs to fill it
queue_at_startup(logs) ==
    <<>>

\* the process stops, by a crash or a shutdown, and a new one starts: the
\* queue and the worker's job were in memory, email_logs is in the database
Restart ==
    /\ Budget
    /\ email_queue' = queue_at_startup(email_logs)
    /\ worker' = [pc |-> "get", job |-> None, error |-> NoText]
    /\ last' = [op |-> "restart", code |-> 0, id |-> None, req |-> None,
                pre |-> [jobs |-> {i \in DOMAIN email_logs : ~WorkerDoneWith(i)}]]
    /\ UNCHANGED <<today, dbVars, archiveVars, email_logs, settings, smtp_log,
                   hostVars, jobVars, queueVars>>

NextRestart ==
    \/ \E mail \in Mails : EnqueueEmail(mail)
    \/ WorkerGet
    \/ WorkerSend
    \/ WorkerMarkSent
    \/ WorkerMarkFailed
    \/ Restart

SpecRestart == InitMail /\ [][NextRestart]_vars

\* C33: a restart keeps every row of email_logs as it is and starts with an
\* empty queue and an idle worker; and a pending row that has no job, queued or
\* in flight, stays pending without a job: nothing puts it back on the queue
\* or delivers it.
C33_PendingRowsAreOrphaned ==
    /\ [][ (last'.op = "restart" /\ ops' # ops) =>
              /\ email_logs' = email_logs
              /\ email_queue' = <<>>
              /\ worker'.job = None ]_vars
    /\ [][ \A i \in DOMAIN email_logs :
              (email_logs[i].status = "pending" /\ WorkerDoneWith(i)) =>
                 /\ i \in DOMAIN email_logs'
                 /\ email_logs'[i] = email_logs[i]
                 /\ WorkerDoneWith(i)' ]_vars

\* the process stopped with one job queued and one in flight; both rows are
\* pending in the new process, whose queue is empty
C33_Witness ==
    /\ last.op = "restart"
    /\ Cardinality(last.pre.jobs) = 2
    /\ \A i \in last.pre.jobs : email_logs[i].status = "pending"
    /\ email_queue = <<>>
    /\ worker.pc = "get"

\* --------------------------------------------------- progress of the worker
\* the worker coroutine is scheduled whenever it can take a step: it waits
\* only in email_queue.get, and the calls it awaits come back
SpecMailLive ==
    /\ InitMail
    /\ [][NextMail]_vars
    /\ WF_vars(WorkerGet)
    /\ WF_vars(WorkerSend)
    /\ WF_vars(WorkerMarkSent)
    /\ WF_vars(WorkerMarkFailed)

\* the queue holds the job of email_logs row id
Queued(id) == \E j \in DOMAIN email_queue : email_queue[j].log_id = id

\* C34: as long as the worker keeps running, every job on the queue is
\* eventually taken and its row eventually ends sent or failed, also when the
\* jobs before it failed.
C34_EveryJobIsHandled ==
    \/ <>(worker.pc = "dead")
    \/ \A id \in 1..MaxMails :
          Queued(id) ~> ( /\ ~Queued(id)
                          /\ id \in DOMAIN email_logs
                          /\ email_logs[id].status \in {"sent", "failed"} )

\* the first of two jobs ended failed and the second, queued behind it, ended
\* sent
C34_Witness ==
    /\ Len(email_logs) = 2
    /\ email_logs[1].status = "failed"
    /\ email_logs[2].status = "sent"
    /\ Len(events) >= 2 /\ events[1].ev = "put" /\ events[2].ev = "put"
    /\ worker.pc = "get"

\* ------------------------------------------------- failed stage transitions
\* C35: a stage transition that is refused, with 404 for its status id or
\* with 400 for a completion without actual hours, leaves the stage and its
\* task in the tables exactly as they were.
C35_FailedTransitionChangesNothing ==
    [][ ( /\ last'.op = "update_stage"
          /\ ops' # ops
          /\ last'.code \in {400, 404} ) =>
        /\ stages' = stages
        /\ tasks' = tasks ]_vars

\* a started stage was refused its completion for want of actual hours, and
\* is still in progress
C35_Witness ==
    /\ last.op = "update_stage" /\ last.code = 400
    /\ last.req.status_state_id = completed_id
    /\ stages[last.id] = last.pre
    /\ stages[last.id].status_state_id = in_progress_id
    /\ stages[last.id].completed_date = None


\* the "Stage Overdue in Task" rows of the last sweep about stage s that also
\* have a job on the queue
StageOverdueMails(s) ==
    {i \in SweepLogs :
        /\ email_logs[i].subject[1] = "Stage Overdue in Task"
        /\ email_logs[i].body.stage_id = s
        /\ email_logs[i].status = "pending"
        /\ Cardinality({j \in DOMAIN email_queue : email_queue[j].log_id = i}) = 1}

\* C36: the stage phase of a sweep sets to overdue exactly the stages that were
\* not completed, had a start_date, had no completed_date and whose task was due
\* before today, and enqueues one stage-overdue notification for each of them
\* whose task has an assignee with an email; every other stage (never started,
\* or of a task not past due) is left unchanged and gets no notification.
C36_StagePhaseFlagsStartedStages ==
    last.op = "sweep" =>
        \A s \in DOMAIN last.pre.stages :
            LET stage == last.pre.stages[s]
                task == last.pre.tasks[stage.task_id]
            IN IF /\ stage.status_state_id # completed_id
                  /\ stage.start_date # None
                  /\ stage.completed_date = None
                  /\ task.due_date < today
               THEN /\ stages[s].status_state_id = overdue_id
                    /\ Cardinality(StageOverdueMails(s)) =
                          IF recipient(task) # NoText THEN 1 ELSE 0
               ELSE /\ stages[s] = stage
                    /\ \A i \in SweepLogs : email_logs[i].body.stage_id # s

\* a sweep has flagged the in-progress stage of an assigned task that was due
\* yesterday and has enqueued the stage's one notification next to the task's
C36_Witness ==
    /\ last.op = "sweep"
    /\ \E s \in DOMAIN last.pre.stages :
          /\ last.pre.stages[s].status_state_id = in_progress_id
          /\ last.pre.stages[s].start_date # None
          /\ last.pre.tasks[stages[s].task_id].due_date = today - 1
          /\ recipient(last.pre.tasks[stages[s].task_id]) # NoText
          /\ stages[s].status_state_id = overdue_id
          /\ Cardinality(StageOverdueMails(s)) = 1
          /\ Cardinality(SweepLogs) = 2


\* ------------------------------------------------ the reminders of the sweep
\* the request bodies the reminder phase is driven with: tasks due today and
\* one, two and three days ahead
RemindTasks ==
    {TaskCreate(due, user, None, None, <<1>>) :
        due \in {FirstDay, FirstDay + 1, FirstDay + 2, FirstDay + 3}, user \in {None, 1}}

\* the one stage of a task is completed, which completes the task
RemindUpdates == { StageUpdate(completed_id, 6, None, None) }

NextRemind ==
    \/ \E task_data \in RemindTasks : CreateTask(task_data)
    \/ \E s \in 1..MaxStages, update_data \in RemindUpdates : UpdateStage(s, update_data)
    \/ AdvanceDay
    \/ SweepBegin
    \/ SweepCommit
    \/ SweepNotify
    \/ SweepRemind

SpecRemind == Init /\ [][NextRemind]_vars

\* C37: the reminder phase of a sweep changes no task and no stage; when its
\* query succeeds it enqueues exactly one "due soon" notification for each task
\* that is not completed, has an assignee with an email and is due one or two
\* days after the day the run read as today, and no other notification: none
\* for a task due that day or three or more days ahead.
C37_RemindersOnlyNotify ==
    [][ (sweep.pc = "remind" /\ last'.op = "sweep_remind") =>
          /\ tasks' = tasks
          /\ stages' = stages
          /\ last'.code = 0 =>
                LET new == (Len(email_logs) + 1)..Len(email_logs')
                IN /\ \A i \in new :
                         /\ email_logs'[i].subject[1] = "Reminder: Task Due Soon -"
                         /\ email_logs'[i].status = "pending"
                         /\ Cardinality({j \in DOMAIN email_queue' :
                                            email_queue'[j].log_id = i}) = 1
                   /\ Len(email_queue') = Len(email_queue) + Cardinality(new)
                   /\ \A t \in DOMAIN tasks :
                         Cardinality({i \in new : email_logs'[i].body.task_id = t}) =
                            IF /\ tasks[t].status_state_id # completed_id
                               /\ recipient(tasks[t]) # NoText
                               /\ tasks[t].due_date \in {sweep.day + 1, sweep.day + 2}
                            THEN 1 ELSE 0 ]_vars

\* a run has just reminded the assignee of a task that is due the day after
\* tomorrow and has left the task and its stage as they were
C37_Witness ==
    /\ last.op = "sweep_remind" /\ last.code = 0
    /\ Len(email_logs) = last.pre.nlogs + 1
    /\ \E t \in DOMAIN tasks :
          /\ tasks[t].due_date = today + 2
          /\ tasks[t].status_state_id # completed_id
          /\ email_logs[Len(email_logs)].subject[1] = "Reminder: Task Due Soon -"
          /\ email_logs[Len(email_logs)].body.task_id = t
          /\ email_logs[Len(email_logs)].to_email = recipient(tasks[t])
    /\ tasks = last.pre.tasks
    /\ stages = last.pre.stages


\* C38: the propagation is idempotent: once a stage transition has run it, a
\* second run on the same stages, due date and day yields the same task status
\* and completed_date.
C38_RecomputeIdempotent ==
    (last.op = "update_stage" /\ last.code = 200) =>
        LET task_id == stages[last.id].task_id
            again == update_task_status_from_stages(tasks, stages, task_id, today)[task_id]
        IN /\ again.status_state_id = tasks[task_id].status_state_id
           /\ again.completed_date = tasks[task_id].completed_date


\* ------------------------------------------- the sweep and soft-deleted tasks
NextSweepDeleted ==
    \/ \E task_data \in SweepTasks : CreateTask(task_data)
    \/ \E s \in 1..MaxStages, update_data \in SweepUpdates : UpdateStage(s, update_data)
    \/ \E t \in 1..MaxTasks : DeleteTask(t)
    \/ AdvanceDay
    \/ CheckOverdueAndNotify

SpecSweepDeleted == Init /\ [][NextSweepDeleted]_vars

\* C39: a sweep changes the status of no soft-deleted task and of no stage of
\* such a task, and enqueues no notification about either.
C39_SweepSkipsDeletedTasks ==
    last.op = "sweep" =>
        \A t \in DOMAIN last.pre.tasks :
            last.pre.tasks[t].is_deleted =>
                /\ tasks[t].status_state_id = last.pre.tasks[t].status_state_id
                /\ \A s \in StagesOf(last.pre.stages, t) :
                      stages[s].status_state_id = last.pre.stages[s].status_state_id
                /\ \A i \in SweepLogs : email_logs[i].body.task_id # t

====
